---- MODULE Spec2Model ----
(***************************************************************************)
(* Verification model of the penguin-detection pipeline core:              *)
(*   - scripts/run_lidar_hag.py : DEM/HAG passes, candidate extractor,     *)
(*     per-tile id assignment, batch de-duplication                        *)
(*   - pipelines/fusion.py      : LiDAR/thermal spatial join               *)
(*   - pipelines/aoi_eval.py    : AOI evaluation with CRS checks           *)
(*                                                                         *)
(* Lengths are integers in centimetres, HAG values in decimetres.          *)
(* Each subsystem has its own specification; the variables of the other    *)
(* subsystems stay at their idle value.                                    *)
(***************************************************************************)
EXTENDS Integers, Sequences, FiniteSets, TLC

\* ------------------------------------------------------------------------
\* Bounds of the model
\* ------------------------------------------------------------------------
GridH == 7
GridW == 7

VARIABLES
    \* candidate extractor (detect_penguins_from_hag + process_file)
    hag, prm, pc, labeled, new_labeled, current_max, label_maps, todo, dets,
    accepted_labels, count

detVars == <<hag, prm, pc, labeled, new_labeled, current_max, label_maps, todo,
             dets, accepted_labels, count>>

VARIABLES
    \* batch de-duplication (_dedupe_detections)
    detections, radius_m, dd_pc, parent, ui, nbrs, deduped, dedupe_index

ddVars == <<detections, radius_m, dd_pc, parent, ui, nbrs, deduped, dedupe_index>>

VARIABLES
    \* DEM and HAG passes (build_ground_dem, build_hag_grid)
    las_points, chunk_size, edt_tie, grid_pc, offset, dem, global_min_z, hag_grid,
    grid_cfg, q05, q95

gridVars == <<las_points, chunk_size, edt_tie, grid_pc, offset, dem, global_min_z,
              hag_grid, grid_cfg, q05, q95>>

VARIABLES
    \* fusion.run
    fparams, fus_pc, lidar_dets, thermal_dets, fus_out, fus_file, fus_error

fusVars == <<fparams, fus_pc, lidar_dets, thermal_dets, fus_out, fus_file, fus_error>>

VARIABLES
    \* aoi_eval.run
    aparams, aoi_pc, lidar_crs, aoi_crs, aois, results, aoi_file, aoi_error

aoiVars == <<aparams, aoi_pc, lidar_crs, aoi_crs, aois, results, aoi_file, aoi_error>>

VARIABLES
    \* process_file up to the grids: bounds, budget check, DEM pass, HAG pass
    tile, tile_pc, tile_bounds, tile_log, tile_out

tileVars == <<tile, tile_pc, tile_bounds, tile_log, tile_out>>

VARIABLES
    \* the batch loop of main over the tiles found
    batch, batch_pc, batch_i, batch_summary

batchVars == <<batch, batch_pc, batch_i, batch_summary>>

vars == <<detVars, ddVars, gridVars, fusVars, aoiVars, tileVars, batchVars>>

\* ------------------------------------------------------------------------
\* Generic helpers
\* ------------------------------------------------------------------------
Max2(a, b) == IF a >= b THEN a ELSE b
Min2(a, b) == IF a <= b THEN a ELSE b
SetMax(S) == CHOOSE m \in S : \A x \in S : x <= m
SetMin(S) == CHOOSE m \in S : \A x \in S : m <= x
Range(s) == {s[i] : i \in 1..Len(s)}
None == [some |-> FALSE]
Some(v) == [some |-> TRUE, v |-> v]

RECURSIVE SumOver(_, _)
SumOver(S, f) ==
    IF S = {} THEN 0
    ELSE LET e == CHOOSE e \in S : TRUE IN f[e] + SumOver(S \ {e}, f)

\* floor of the square root of n, searched in lo..hi
RECURSIVE ISqrt(_, _, _)
ISqrt(n, lo, hi) ==
    IF lo >= hi THEN lo
    ELSE LET mid == (lo + hi + 1) \div 2
         IN IF mid * mid <= n THEN ISqrt(n, mid, hi) ELSE ISqrt(n, lo, mid - 1)

\* ascending sequence of a finite set of integers
RECURSIVE SortedSeq(_)
SortedSeq(S) ==
    IF S = {} THEN <<>>
    ELSE LET m == SetMin(S) IN <<m>> \o SortedSeq(S \ {m})

\* Python round(n/d) for n >= 0, d > 0: round half to even
PyRound(n, d) ==
    LET q == n \div d
        r2 == 2 * (n % d)
    IN IF r2 < d THEN q
       ELSE IF r2 > d THEN q + 1
       ELSE IF q % 2 = 0 THEN q ELSE q + 1

\* ------------------------------------------------------------------------
\* Grid, HAG inputs
\* ------------------------------------------------------------------------
\* pixels of the HAG array, and its shape
Cells == DOMAIN hag
ShapeRows == SetMax({p[1] : p \in Cells}) + 1
ShapeCols == SetMax({p[2] : p \in Cells}) + 1
GridOf(ny, nx) == (0..(ny - 1)) \X (0..(nx - 1))

Foot == (0..2) \X (0..2)
OnPlus(o) == o[1] = 1 \/ o[2] = 1

\* blob shapes painted into the HAG grid (decimetres above ground)
Stamps ==
    LET StampNone == [o \in Foot |-> 0]
        StampDot == [o \in Foot |-> IF o = <<1, 1>> THEN 3 ELSE 0]
        StampPlus == [o \in Foot |-> IF OnPlus(o) THEN 3 ELSE 0]
        StampTwoPeak ==
            [o \in Foot |-> IF o = <<1, 0>> THEN 6
                            ELSE IF o = <<1, 2>> THEN 5
                            ELSE IF OnPlus(o) THEN 3 ELSE 0]
    IN {StampNone, StampDot, StampPlus, StampTwoPeak}
Anchors == (0..(GridH - 3)) \X (0..(GridW - 3))

Paint(s, a) ==
    [p \in GridOf(GridH, GridW) |->
        IF <<p[1] - a[1], p[2] - a[2]>> \in Foot
        THEN s[<<p[1] - a[1], p[2] - a[2]>>] ELSE 0]

HagInputs ==
    {[p \in GridOf(GridH, GridW) |-> Max2(Paint(s1, a1)[p], Paint(s2, a2)[p])] :
        <<s1, a1, s2, a2>> \in Stamps \X Anchors \X Stamps \X Anchors}

\* a frame two pixels thick around a centred block: both blobs have 120 pixels
\* and the same centroid
RingAndBlock ==
    LET InFrame(p, ny, nx) == p[1] < 2 \/ p[1] > ny - 3 \/ p[2] < 2 \/ p[2] > nx - 3
        InBlock(p, ny, nx) == 3 <= p[1] /\ p[1] <= ny - 4 /\ 3 <= p[2] /\ p[2] <= nx - 4
    IN [p \in GridOf(16, 18) |->
          IF InFrame(p, 16, 18) \/ InBlock(p, 16, 18) THEN 3 ELSE 0]

\* ------------------------------------------------------------------------
\* Parameter profiles  (options of detect_penguins_from_hag / process_file)
\* ------------------------------------------------------------------------
BaseProfile ==
    [hag_min |-> 2, hag_max |-> 7, min_area_cells |-> 1, max_area_cells |-> 9,
     connectivity |-> 2, cell_res |-> 25, se_radius |-> 15, mins |-> <<100, 200>>,
     circularity_min |-> 2, solidity_min |-> 7, apply_watershed |-> FALSE,
     h_maxima_h |-> 1, min_split_area_cells |-> 3, border_trim_px |-> 0,
     slope_gate |-> FALSE, stem |-> <<116, 49>>]

Profiles ==
    { BaseProfile,
      [BaseProfile EXCEPT !.apply_watershed = TRUE],
      [BaseProfile EXCEPT !.apply_watershed = TRUE, !.connectivity = 1,
                          !.min_area_cells = 2, !.max_area_cells = 4],
      [BaseProfile EXCEPT !.border_trim_px = 1, !.slope_gate = TRUE,
                          !.connectivity = 1],
      [BaseProfile EXCEPT !.hag_max = 5, !.se_radius = 50] }

\* shape filters switched off, as in the extractor's unit tests
PermissiveProfile ==
    [BaseProfile EXCEPT !.max_area_cells = 10000, !.circularity_min = 0,
                        !.solidity_min = 0]

\* ------------------------------------------------------------------------
\* Image operations used by the extractor
\* ------------------------------------------------------------------------
Shift(p, o) == <<p[1] + o[1], p[2] + o[2]>>

\* the same set, enumerated
Explicit(S) == {x : x \in S}

\* skimage.morphology.disk(r)
Disk(r) == {o \in ((-r)..r) \X ((-r)..r) : o[1] * o[1] + o[2] * o[2] <= r * r}

\* skimage binary_erosion pads with True, binary_dilation with False
BinaryErosion(M, se) ==
    Explicit({p \in Cells : \A o \in se : Shift(p, o) \notin Cells \/ Shift(p, o) \in M})
BinaryDilation(M, se) ==
    Explicit({p \in Cells : \E o \in se : Shift(p, o) \in M})
BinaryOpening(M, se) == BinaryDilation(BinaryErosion(M, se), se)
BinaryClosing(M, se) == BinaryErosion(BinaryDilation(M, se), se)

\* connectivity 1 = 4-neighbours, 2 = 8-neighbours
Adj(p, q, conn) ==
    LET dr == IF p[1] >= q[1] THEN p[1] - q[1] ELSE q[1] - p[1]
        dc == IF p[2] >= q[2] THEN p[2] - q[2] ELSE q[2] - p[2]
    IN /\ p # q
       /\ dr <= 1 /\ dc <= 1
       /\ (conn = 2 \/ dr + dc = 1)

RECURSIVE Grow(_, _, _, _)
Grow(seen, front, S, conn) ==
    LET nxt == Explicit({q \in S \ seen : \E p \in front : Adj(p, q, conn)})
    IN IF nxt = {} THEN seen ELSE Grow(seen \cup nxt, nxt, S, conn)

Component(p, S, conn) == Grow({p}, {p}, S, conn)

FirstRaster(S) ==
    CHOOSE p \in S : \A q \in S : p[1] < q[1] \/ (p[1] = q[1] /\ p[2] <= q[2])

\* the connected components of S in the order a raster scan meets them
RECURSIVE CompSeq(_, _)
CompSeq(S, conn) ==
    IF S = {} THEN <<>>
    ELSE LET C == Component(FirstRaster(S), S, conn)
         IN <<C>> \o CompSeq(S \ C, conn)

\* measure.label / ndi.label: components numbered 1.. in raster-scan order
LabelImage(S, conn) ==
    CHOOSE L \in {[p \in Cells |->
                     IF \E i \in 1..Len(cs) : p \in cs[i]
                     THEN CHOOSE i \in 1..Len(cs) : p \in cs[i] ELSE 0] :
                  cs \in {CompSeq(Explicit(S), conn)}} : TRUE

ImageMax(L) == SetMax({L[p] : p \in Cells} \cup {0})
LabelsOf(L) == {L[p] : p \in Cells} \ {0}
RegionCells(L, lab) == Explicit({p \in Cells : L[p] = lab})

\* regionprops bbox: (min_row, min_col, max_row + 1, max_col + 1)
BBox(R) ==
    [minr |-> SetMin({p[1] : p \in R}), minc |-> SetMin({p[2] : p \in R}),
     maxr |-> SetMax({p[1] : p \in R}) + 1, maxc |-> SetMax({p[2] : p \in R}) + 1]
Crop(b) == Explicit({p \in Cells : b.minr <= p[1] /\ p[1] < b.maxr /\ b.minc <= p[2] /\ p[2] < b.maxc})

\* morphology.h_maxima(sub_hag, h) on the bounding-box crop: a pixel is kept when
\* no strictly higher pixel can be reached inside the crop through pixels whose
\* value stays above f(p) - h (residue of the reconstruction >= h)
HMaxima(crop, f, h) ==
    {p \in crop :
        LET up == Explicit({q \in crop : f[q] > f[p] - h})
        IN \A q \in Component(p, up, 2) : f[q] <= f[p]}

\* neighbours of p in the visiting order of the flood: the 4-neighbours first,
\* then the diagonals, each group in raster order
NbrSeq(p, conn) ==
    LET orth == <<<<-1, 0>>, <<0, -1>>, <<0, 1>>, <<1, 0>>>>
        diag == <<<<-1, -1>>, <<-1, 1>>, <<1, -1>>, <<1, 1>>>>
        offs == IF conn = 2 THEN orth \o diag ELSE orth
    IN [i \in 1..Len(offs) |-> Shift(p, offs[i])]

\* one pop of the priority flood: the element of lowest -hag (highest hag),
\* oldest first, gives its label to its still unlabelled neighbours inside the
\* region; frag[m] is the set of pixels carrying label m
RECURSIVE Flood(_, _, _, _, _, _)
Flood(heap, frag, age, f, region, conn) ==
    IF heap = {} THEN frag
    ELSE LET e == CHOOSE e \in heap :
                    \A g \in heap : f[e.c] > f[g.c] \/ (f[e.c] = f[g.c] /\ e.a <= g.a)
             ns == NbrSeq(e.c, conn)
             done == UNION Range(frag)
             fresh == Explicit({i \in 1..Len(ns) : ns[i] \in region /\ ns[i] \notin done})
             rank(i) == Cardinality({j \in fresh : j <= i})
             pushed == {[c |-> ns[i], a |-> age + rank(i), m |-> e.m] : i \in fresh}
             step == <<Explicit((heap \ {e}) \cup pushed),
                       [m \in DOMAIN frag |->
                          IF m = e.m THEN Explicit(frag[m] \cup {ns[i] : i \in fresh})
                          ELSE frag[m]],
                       age + Cardinality(fresh)>>
         IN CHOOSE r \in {Flood(t[1], t[2], t[3], f, region, conn) : t \in {step}} : TRUE

\* skimage.segmentation.watershed(-sub_hag, markers, mask=submask): markers is a
\* label image on the crop with labels 1..nm; tie is the order in which
\* equal-valued markers leave the heap (a permutation of the marker labels).
\* The result maps each marker label to the pixels it flooded.
Watershed(f, markers, nm, region, conn, tie) ==
    LET seeds == Explicit({p \in region : markers[p] > 0})
        heap0 == {[c |-> p, a |-> tie[markers[p]] - nm - 1, m |-> markers[p]] : p \in seeds}
        frag0 == <<heap0, [m \in 1..nm |-> Explicit({p \in seeds : markers[p] = m})]>>
    IN CHOOSE r \in {Flood(t[1], t[2], 0, f, region, conn) : t \in {frag0}} : TRUE

Perms(n) == {t \in [1..n -> 1..n] : \A i, j \in 1..n : t[i] = t[j] => i = j}

\* ------------------------------------------------------------------------
\* detect_penguins_from_hag: threshold, morphology, labelling
\* ------------------------------------------------------------------------
ThresholdMask(h, P) ==
    Explicit({p \in Cells : h[p] >= P.hag_min /\ h[p] <= P.hag_max})

SePx(P) == Max2(1, PyRound(P.se_radius, Max2(P.cell_res, 1)))

CleanMask(h, P) ==
    LET thr == ThresholdMask(h, P)
        se == Disk(SePx(P))
    IN BinaryClosing(BinaryOpening(thr, se), se) \cap thr

\* label_map = {l: i + current_max + 1 for i, l in enumerate(unique_ws)}
LabelMap(unique_ws, l, cmax) ==
    LET i == CHOOSE i \in 1..Len(unique_ws) : unique_ws[i] = l
    IN (i - 1) + cmax + 1

\* current_max += len(unique_ws)
AdvanceMaxStale(cmax, unique_ws) == cmax
AdvanceMax(cmax, unique_ws) == cmax + Len(unique_ws)

\* rational numbers n/d with d > 0 stand for the float attributes
Rat(n, d) == [n |-> n, d |-> d]
RatLess(a, b) == a.n * b.d < b.n * a.d
RatEq(a, b) == a.n * b.d = b.n * a.d

\* x = mins[0] + (col + 0.5) * cell_res, with col = sum_c / area
CellCenter(origin, sum, area, res) ==
    Rat(2 * area * origin + (2 * sum + area) * res, 2 * area)

\* border trim test on a regionprops bbox
BorderTrimmedTopLeftOnly(b, n) ==
    n # 0 /\ (b.minr <= n \/ b.minc <= n)
BorderTrimmed(b, n) ==
    n # 0 /\ (b.minr <= n \/ b.minc <= n \/ (ShapeRows - b.maxr) <= n
              \/ (ShapeCols - b.maxc) <= n)

\* measures regionprops derives from the pixel geometry (perimeter -> circularity,
\* convex hull -> solidity), in tenths
CircSamples == {1, 8}
SolSamples == {3, 9}

AreaRejected(area, P) == area < P.min_area_cells \/ area > P.max_area_cells
ShapeRejectedNoSolidity(circ, sol, P) == circ < P.circularity_min
ShapeRejected(circ, sol, P) == circ < P.circularity_min \/ sol < P.solidity_min

MakeDet(lab, R, circ, sol, h, P) ==
    LET area == Cardinality(R)
        sr == SumOver(R, [p \in R |-> p[1]])
        sc == SumOver(R, [p \in R |-> p[2]])
    IN [label |-> lab, row |-> Rat(sr, area), col |-> Rat(sc, area),
        area_cells |-> area, circularity |-> circ, solidity |-> sol,
        hag_mean |-> Rat(SumOver(R, [p \in R |-> h[p]]), area),
        hag_max |-> SetMax({h[p] : p \in R}),
        x |-> CellCenter(P.mins[1], sc, area, P.cell_res),
        y |-> CellCenter(P.mins[2], sr, area, P.cell_res),
        area_m2 |-> area * P.cell_res * P.cell_res]

\* keep[labeled]: only accepted labels stay in the label image
KeepAll(L, acc) == L
KeepOnly(L, acc) ==
    IF acc # {}
    THEN [p \in Cells |-> IF L[p] \in acc THEN L[p] ELSE 0]
    ELSE [p \in Cells |-> 0]

\* ------------------------------------------------------------------------
\* process_file: stable ordering and ids
\* ------------------------------------------------------------------------
RECURSIVE Digits(_)
Digits(n) == IF n < 10 THEN <<n>> ELSE Digits(n \div 10) \o <<n % 10>>

\* format spec 05d
ZeroPad5(n) ==
    LET ds == Digits(n)
    IN IF Len(ds) >= 5 THEN ds ELSE [i \in 1..(5 - Len(ds)) |-> 0] \o ds

\* f"{las_path.stem}:{i:05d}"; strings are sequences of character codes
DetectionId(stem, i) ==
    stem \o <<58>> \o [k \in 1..Len(ZeroPad5(i)) |-> 48 + ZeroPad5(i)[k]]

\* sort key (x, y, area_cells)
KeyLess(a, b) ==
    \/ RatLess(a.x, b.x)
    \/ /\ RatEq(a.x, b.x)
       /\ \/ RatLess(a.y, b.y)
          \/ RatEq(a.y, b.y) /\ a.area_cells < b.area_cells

\* list.sort is stable: an element goes behind every element not greater than it
InsertStable(sorted, d) ==
    LET k == Cardinality({i \in 1..Len(sorted) : ~KeyLess(d, sorted[i])})
    IN SubSeq(sorted, 1, k) \o <<d>> \o SubSeq(sorted, k + 1, Len(sorted))

RECURSIVE SortDets(_)
SortDets(ds) ==
    IF ds = <<>> THEN <<>>
    ELSE InsertStable(SortDets(SubSeq(ds, 1, Len(ds) - 1)), ds[Len(ds)])

WithIds(ds, stem) ==
    [i \in 1..Len(ds) |->
        [f \in DOMAIN ds[i] \cup {"tile", "id", "file"} |->
            IF f = "tile" THEN stem
            ELSE IF f = "id" THEN DetectionId(stem, i)
            ELSE IF f = "file" THEN stem \o <<46, 108, 97, 115>>
            ELSE ds[i][f]]]

\* ------------------------------------------------------------------------
\* Candidate extractor as a state machine
\* ------------------------------------------------------------------------
NoImage == [p \in Cells |-> 0]

DetectStart ==
    /\ \/ hag \in HagInputs /\ prm \in Profiles
       \/ hag = RingAndBlock /\ prm = PermissiveProfile
    /\ pc = "start"
    /\ labeled = NoImage
    /\ new_labeled = NoImage
    /\ current_max = 0
    /\ label_maps = <<>>
    /\ todo = <<>>
    /\ dets = <<>>
    /\ accepted_labels = {}
    /\ count = 0

\* the extractor is not running
DetectIdle ==
    /\ hag = [p \in GridOf(1, 1) |-> 0]
    /\ prm = BaseProfile
    /\ pc = "idle"
    /\ labeled = [p \in GridOf(1, 1) |-> 0]
    /\ new_labeled = [p \in GridOf(1, 1) |-> 0]
    /\ current_max = 0
    /\ label_maps = <<>>
    /\ todo = <<>>
    /\ dets = <<>>
    /\ accepted_labels = {}
    /\ count = 0

\* run_lidar_hag.py 516-546: threshold, opening/closing, measure.label
LabelComponents ==
    /\ pc = "start"
    /\ LET lab == LabelImage(CleanMask(hag, prm), prm.connectivity)
       IN /\ labeled' = lab
          /\ new_labeled' = labeled'
          /\ current_max' = IF prm.apply_watershed /\ prm.min_split_area_cells > 0
                               /\ prm.h_maxima_h > 0
                            THEN ImageMax(labeled') ELSE 0
          /\ todo' = SortedSeq(LabelsOf(labeled'))
          /\ pc' = IF current_max' > 0 THEN "split" ELSE "filter"
    /\ UNCHANGED <<hag, prm, label_maps, dets, accepted_labels, count>>
    /\ UNCHANGED <<ddVars, gridVars, fusVars, aoiVars, tileVars, batchVars>>

\* 547-578: one iteration of the watershed loop over regionprops(labeled)
SplitRegion ==
    /\ pc = "split" /\ todo # <<>>
    /\ \E R \in {RegionCells(labeled, Head(todo))} :
       \E markers \in {LabelImage(HMaxima(Crop(BBox(R)), hag, prm.h_maxima_h) \cap R, 1)} :
       \E nm \in {ImageMax(markers)} :
          IF Cardinality(R) < prm.min_split_area_cells \/ nm < 2
          THEN UNCHANGED <<new_labeled, current_max, label_maps>>
          ELSE \E ws \in {Watershed(hag, markers, nm, R, prm.connectivity, tie) :
                            tie \in Perms(nm)} :
               \E unique_ws \in {SortedSeq({m \in 1..nm : ws[m] # {}})} :
                  IF unique_ws = <<>>
                  THEN UNCHANGED <<new_labeled, current_max, label_maps>>
                  ELSE /\ new_labeled' =
                            [p \in Cells |->
                               IF p \notin R THEN new_labeled[p]
                               ELSE IF \E m \in 1..nm : p \in ws[m]
                                    THEN LabelMap(unique_ws,
                                                  CHOOSE m \in 1..nm : p \in ws[m],
                                                  current_max)
                                    ELSE 0]
                       /\ current_max' = AdvanceMax(current_max, unique_ws)
                       /\ label_maps' = Append(label_maps,
                              [region |-> Head(todo),
                               map |-> [i \in 1..Len(unique_ws) |->
                                  LabelMap(unique_ws, unique_ws[i], current_max)]])
    /\ todo' = Tail(todo)
    /\ UNCHANGED <<hag, prm, pc, labeled, dets, accepted_labels, count>>
    /\ UNCHANGED <<ddVars, gridVars, fusVars, aoiVars, tileVars, batchVars>>

\* 579-583: labeled = new_labeled; props = regionprops(labeled, hag)
SplitDone ==
    /\ pc = "split" /\ todo = <<>>
    /\ labeled' = new_labeled
    /\ todo' = SortedSeq(LabelsOf(new_labeled))
    /\ pc' = "filter"
    /\ UNCHANGED <<hag, prm, new_labeled, current_max, label_maps, dets, accepted_labels,
                   count, ddVars, gridVars, fusVars, aoiVars, tileVars, batchVars>>

\* 584-625: one iteration of the filter loop
FilterRegion ==
    /\ pc = "filter" /\ todo # <<>>
    /\ \E circ \in CircSamples, sol \in SolSamples,
          steep \in (IF prm.slope_gate THEN BOOLEAN ELSE {FALSE}) :
         LET lab == Head(todo)
             R == RegionCells(labeled, lab)
             area == Cardinality(R)
             b == BBox(R)
             bbox_area == (b.maxr - b.minr) * (b.maxc - b.minc)
             reject == \/ AreaRejected(area, prm)
                       \/ BorderTrimmed(b, prm.border_trim_px)
                       \/ bbox_area = 0
                       \/ 10 * area < bbox_area
                       \/ ShapeRejected(circ, sol, prm)
                       \/ steep
         IN IF reject
            THEN UNCHANGED <<dets, accepted_labels, count>>
            ELSE /\ count' = count + 1
                 /\ accepted_labels' = accepted_labels \cup {lab}
                 /\ dets' = Append(dets, MakeDet(lab, R, circ, sol, hag, prm))
    /\ todo' = Tail(todo)
    /\ UNCHANGED <<hag, prm, pc, labeled, new_labeled, current_max, label_maps>>
    /\ UNCHANGED <<ddVars, gridVars, fusVars, aoiVars, tileVars, batchVars>>

\* 626-633: rewrite the label image, return (count, labeled, dets)
KeepAccepted ==
    /\ pc = "filter" /\ todo = <<>>
    /\ labeled' = KeepOnly(labeled, accepted_labels)
    /\ pc' = "returned"
    /\ UNCHANGED <<hag, prm, new_labeled, current_max, label_maps, todo, dets,
                   accepted_labels, count, ddVars, gridVars, fusVars, aoiVars, tileVars, batchVars>>

\* process_file 828-833: sort, then ids
AssignIds ==
    /\ pc = "returned"
    /\ dets' = WithIds(SortDets(dets), prm.stem)
    /\ pc' = "emitted"
    /\ UNCHANGED <<hag, prm, labeled, new_labeled, current_max, label_maps, todo,
                   accepted_labels, count, ddVars, gridVars, fusVars, aoiVars, tileVars, batchVars>>

NextDetect ==
    \/ LabelComponents
    \/ SplitRegion
    \/ SplitDone
    \/ FilterRegion
    \/ KeepAccepted
    \/ AssignIds

\* ------------------------------------------------------------------------
\* Properties of the candidate extractor
\* ------------------------------------------------------------------------
\* C1: however many regions have been split, a label written for a watershed
\* fragment differs from every label of the image before splitting, and two
\* different fragments (of one region or of different regions) never carry the
\* same label; the pixels carrying a fragment's label lie in the region that
\* was split.
C1_SplitLabelsUnique ==
    /\ \A k1, k2 \in 1..Len(label_maps) :
          \A i1 \in DOMAIN label_maps[k1].map, i2 \in DOMAIN label_maps[k2].map :
             <<k1, i1>> # <<k2, i2>> => label_maps[k1].map[i1] # label_maps[k2].map[i2]
    /\ pc = "split" =>
          \A k \in 1..Len(label_maps) : \A i \in DOMAIN label_maps[k].map :
             /\ label_maps[k].map[i] \notin LabelsOf(labeled)
             /\ \A p \in Cells : new_labeled[p] = label_maps[k].map[i]
                                    => labeled[p] = label_maps[k].region

\* two regions of one image have each been split into two fragments
C1_Witness ==
    /\ pc = "split" /\ todo = <<>>
    /\ Len(label_maps) >= 2
    /\ \A k \in 1..Len(label_maps) : Len(label_maps[k].map) >= 2

\* C2: on return the label image holds exactly the labels of the accepted
\* detections, pixels of rejected components are 0, the count equals the
\* number of detections, and the number of nonzero pixels equals the sum of
\* the detections' area_cells.
C2_LabelImageMatchesDetections ==
    pc \in {"returned", "emitted"} =>
       /\ LabelsOf(labeled) = {dets[i].label : i \in 1..Len(dets)}
       /\ \A p \in Cells : new_labeled[p] \notin accepted_labels => labeled[p] = 0
       /\ count = Len(dets)
       /\ Cardinality({p \in Cells : labeled[p] # 0})
             = SumOver(1..Len(dets), [i \in 1..Len(dets) |-> dets[i].area_cells])

\* a call returned with an accepted detection and a rejected component
C2_Witness ==
    /\ pc = "returned"
    /\ count >= 1
    /\ Cardinality(LabelsOf(new_labeled)) > count

\* C6: every detection in the output has min_area_cells <= area_cells <=
\* max_area_cells, circularity >= circularity_min and solidity >=
\* solidity_min, with or without watershed splitting.
C6_DetectionsWithinShapeBounds ==
    \A i \in 1..Len(dets) :
       /\ prm.min_area_cells <= dets[i].area_cells
       /\ dets[i].area_cells <= prm.max_area_cells
       /\ dets[i].circularity >= prm.circularity_min
       /\ dets[i].solidity >= prm.solidity_min

\* a watershed fragment was accepted as a detection
C6_Witness ==
    /\ pc = "returned"
    /\ \E i \in 1..Len(dets) : \E k \in 1..Len(label_maps) :
          \E j \in DOMAIN label_maps[k].map : dets[i].label = label_maps[k].map[j]

\* C7: with border_trim_px = N > 0 every accepted detection's bounding box
\* keeps more than N pixels clear of each of the four image edges, so none
\* comes within N pixels of an edge.
C7_BorderTrim ==
    (prm.border_trim_px > 0 /\ pc \in {"filter", "returned", "emitted"}) =>
       \A i \in 1..Len(dets) :
          LET b == BBox(RegionCells(new_labeled, dets[i].label))
              n == prm.border_trim_px
          IN /\ b.minr > n
             /\ b.minc > n
             /\ ShapeRows - b.maxr > n
             /\ ShapeCols - b.maxc > n

\* a detection was accepted while the border trim was active and another
\* component of the same image was dropped
C7_Witness ==
    /\ prm.border_trim_px > 0
    /\ pc = "returned"
    /\ count >= 1
    /\ Cardinality(LabelsOf(new_labeled)) > count

\* the labeler hands over the same detections in another order
Permute(ds, pi) == [i \in 1..Len(ds) |-> ds[pi[i]]]
IdOfLabel(out) == {<<out[i].label, out[i].id>> : i \in 1..Len(out)}

\* C5: the emitted detections are in non-decreasing (x, y, area_cells) order,
\* the i-th detection (i from 1) has id "<stem>:<i as 05d>", the ids of
\* a tile are pairwise distinct, and the id a detection receives is the same
\* for every order in which the labeler could have produced the detections.
C5_IdsIndependentOfLabelerOrder ==
    /\ pc = "emitted" =>
          /\ \A i, j \in 1..Len(dets) : i < j => ~KeyLess(dets[j], dets[i])
          /\ \A i \in 1..Len(dets) : dets[i].id = DetectionId(prm.stem, i)
          /\ \A i, j \in 1..Len(dets) : i # j => dets[i].id # dets[j].id
    /\ pc = "returned" =>
          \A pi \in Perms(Len(dets)) :
             IdOfLabel(WithIds(SortDets(Permute(dets, pi)), prm.stem))
                = IdOfLabel(WithIds(SortDets(dets), prm.stem))

\* ------------------------------------------------------------------------
\* Batch de-duplication: _dedupe_detections
\* ------------------------------------------------------------------------
MaxDets == 3

\* str < str: lexicographic on character codes
RECURSIVE StrLess(_, _)
StrLess(a, b) ==
    IF b = <<>> THEN FALSE
    ELSE IF a = <<>> THEN TRUE
    ELSE IF Head(a) # Head(b) THEN Head(a) < Head(b)
    ELSE StrLess(Tail(a), Tail(b))

\* tiles a.las, b.las and, in another directory, c/a.las (stem "a" again)
\* Path.stem: the file name without directory and suffix
StemOf(path) ==
    LET slashes == {i \in 1..Len(path) : path[i] = 47}
        first == IF slashes = {} THEN 1 ELSE SetMax(slashes) + 1
        dots == {i \in first..Len(path) : path[i] = 46}
        last == IF dots = {} THEN Len(path) ELSE SetMax(dots) - 1
    IN SubSeq(path, first, last)
\* detections of tiles a.las, b.las and c/a.las; positions in centimetres;
\* (0,0)-(60,80) and (0,0)-(100,0) are exactly 100 apart
DetPool ==
    LET TileA == <<97, 46, 108, 97, 115>>
        TileB == <<98, 46, 108, 97, 115>>
        TileCA == <<99, 47, 97, 46, 108, 97, 115>>
        DetIdents == {<<TileA, 1>>, <<TileA, 2>>, <<TileB, 1>>, <<TileCA, 1>>}
        Positions == {<<0, 0>>, <<100, 0>>, <<60, 80>>, <<200, 0>>}
    IN {[file |-> t[1], id |-> DetectionId(StemOf(t[1]), t[2]), x |-> q[1], y |-> q[2]] :
           t \in DetIdents, q \in Positions}

\* all_detections of a batch: records of distinct (file, id)
DetectionLists ==
    UNION {{ds \in [1..n -> DetPool] :
              \A i, j \in 1..n : i # j => <<ds[i].file, ds[i].id>> # <<ds[j].file, ds[j].id>>} :
           n \in 1..MaxDets}

Dist2(a, b) == (a.x - b.x) * (a.x - b.x) + (a.y - b.y) * (a.y - b.y)

\* tree.query_ball_point(pts, r): every point at distance <= r
InBallStrict(a, b, r) == Dist2(a, b) < r * r
InBall(a, b, r) == Dist2(a, b) <= r * r
BallNeighbors(ds, i, r) == {j \in 1..Len(ds) : InBall(ds[i], ds[j], r)}

\* find with path halving; returns the root and the updated parent array
RECURSIVE Find(_, _)
Find(par, a) ==
    IF par[a] = a THEN [root |-> a, parent |-> par]
    ELSE LET p2 == [par EXCEPT ![a] = par[par[a]]]
         IN Find(p2, p2[a])

\* a union that re-parents b itself instead of the root of b
UnionDirect(par, a, b) ==
    LET fa == Find(par, a)
    IN [fa.parent EXCEPT ![b] = fa.root]

Union(par, a, b) ==
    LET fa == Find(par, a)
        fb == Find(fa.parent, b)
    IN IF fa.root # fb.root
       THEN [fb.parent EXCEPT ![fb.root] = fa.root]
       ELSE fb.parent

\* key=(str(file), str(id), float(x), float(y))
RepKeyLess(a, b) ==
    \/ StrLess(a.file, b.file)
    \/ /\ a.file = b.file
       /\ \/ StrLess(a.id, b.id)
          \/ /\ a.id = b.id
             /\ (a.x < b.x \/ (a.x = b.x /\ a.y < b.y))

\* min(members, key=...): the first member whose key no other member undercuts
RepOf(ds, members) ==
    LET best == {m \in members : \A k \in members : ~RepKeyLess(ds[k], ds[m])}
    IN SetMin(best)

\* clusters: root -> members, in order of first appearance of the root
RootOf(par, i) == Find(par, i).root
ClusterRoots(par, n) ==
    LET firsts == {i \in 1..n : \A k \in 1..(i - 1) : RootOf(par, k) # RootOf(par, i)}
    IN [k \in 1..Cardinality(firsts) |-> RootOf(par, SortedSeq(firsts)[k])]
Members(par, n, root) == {i \in 1..n : RootOf(par, i) = root}

RepRecord(ds, par, root) ==
    LET rep == ds[RepOf(ds, Members(par, Len(ds), root))]
    IN [file |-> rep.file, id |-> rep.id, x |-> rep.x, y |-> rep.y,
        dedupe_cluster_id |-> root - 1,
        dedupe_cluster_size |-> Cardinality(Members(par, Len(ds), root))]

\* deduped.sort(key=(file, id)), stable
FileIdLess(a, b) ==
    StrLess(a.file, b.file) \/ (a.file = b.file /\ StrLess(a.id, b.id))
RECURSIVE SortByFileId(_)
SortByFileId(ds) ==
    IF ds = <<>> THEN <<>>
    ELSE LET rest == SortByFileId(SubSeq(ds, 1, Len(ds) - 1))
             d == ds[Len(ds)]
             k == Cardinality({i \in 1..Len(rest) : ~FileIdLess(d, rest[i])})
         IN SubSeq(rest, 1, k) \o <<d>> \o SubSeq(rest, k + 1, Len(rest))

Deduped(ds, par) ==
    LET roots == ClusterRoots(par, Len(ds))
    IN SortByFileId([k \in 1..Len(roots) |-> RepRecord(ds, par, roots[k])])

\* dedupe_index[det_id] = {...}: written cluster by cluster, member by member;
\* a later write to the same id replaces the earlier one
IndexWrites(ds, par) ==
    LET roots == ClusterRoots(par, Len(ds))
        n == Len(ds)
    IN {[at |-> <<k, idx>>, id |-> ds[idx].id,
         entry |-> [keep_id |-> ds[RepOf(ds, Members(par, n, roots[k]))].id,
                    cluster_id |-> roots[k] - 1,
                    dropped |-> idx # RepOf(ds, Members(par, n, roots[k]))]] :
           <<k, idx>> \in {<<k, idx>> \in (1..Len(roots)) \X (1..n) :
                              idx \in Members(par, n, roots[k])}}
DedupeIndex(ds, par) ==
    LET ws == IndexWrites(ds, par)
        last(id) == CHOOSE w \in ws : w.id = id /\
                       \A v \in ws : v.id = id =>
                          (v.at[1] < w.at[1] \/ (v.at[1] = w.at[1] /\ v.at[2] <= w.at[2]))
    IN [id \in {w.id : w \in ws} |-> last(id).entry]

DedupeIdle ==
    /\ detections = <<>>
    /\ radius_m = 0
    /\ dd_pc = "idle"
    /\ parent = <<>>
    /\ ui = 0
    /\ nbrs = {}
    /\ deduped = <<>>
    /\ dedupe_index = <<>>

DedupeStart ==
    /\ detections \in DetectionLists
    /\ radius_m \in {0, 90, 100}
    /\ dd_pc = "call"
    /\ parent = <<>>
    /\ ui = 0
    /\ nbrs = {}
    /\ deduped = <<>>
    /\ dedupe_index = <<>>

\* 277-283: early return, else the ball query and parent = arange(n)
DedupeEnter ==
    /\ dd_pc = "call"
    /\ IF radius_m <= 0 \/ detections = <<>>
       THEN /\ deduped' = detections
            /\ dedupe_index' = <<>>
            /\ dd_pc' = "done"
            /\ UNCHANGED <<parent, ui, nbrs>>
       ELSE /\ parent' = [i \in 1..Len(detections) |-> i]
            /\ ui' = 1
            /\ nbrs' = BallNeighbors(detections, 1, radius_m)
            /\ dd_pc' = "union"
            /\ UNCHANGED <<deduped, dedupe_index>>
    /\ UNCHANGED <<detections, radius_m, detVars, gridVars, fusVars, aoiVars, tileVars, batchVars>>

\* 296-300: one neighbour j of point i, in whatever order the tree lists them
UnionNeighbor ==
    /\ dd_pc = "union" /\ nbrs # {}
    /\ \E j \in nbrs :
          /\ parent' = IF j <= ui THEN parent ELSE Union(parent, ui, j)
          /\ nbrs' = nbrs \ {j}
    /\ UNCHANGED <<detections, radius_m, dd_pc, ui, deduped, dedupe_index>>
    /\ UNCHANGED <<detVars, gridVars, fusVars, aoiVars, tileVars, batchVars>>

\* 296: next i of the outer loop
NextPoint ==
    /\ dd_pc = "union" /\ nbrs = {} /\ ui < Len(detections)
    /\ ui' = ui + 1
    /\ nbrs' = BallNeighbors(detections, ui + 1, radius_m)
    /\ UNCHANGED <<detections, radius_m, dd_pc, parent, deduped, dedupe_index>>
    /\ UNCHANGED <<detVars, gridVars, fusVars, aoiVars, tileVars, batchVars>>

\* 302-345: clusters, representatives, sorted output, index
DedupeFinish ==
    /\ dd_pc = "union" /\ nbrs = {} /\ ui = Len(detections)
    /\ deduped' = Deduped(detections, parent)
    /\ dedupe_index' = DedupeIndex(detections, parent)
    /\ dd_pc' = "done"
    /\ UNCHANGED <<detections, radius_m, parent, ui, nbrs>>
    /\ UNCHANGED <<detVars, gridVars, fusVars, aoiVars, tileVars, batchVars>>

NextDedupe ==
    \/ DedupeEnter
    \/ UnionNeighbor
    \/ NextPoint
    \/ DedupeFinish

\* C3: with radius r > 0, no two representatives emitted by _dedupe_detections
\* lie within distance r of each other, a pair exactly r apart counting as
\* within r.
C3_RepresentativesFartherThanRadius ==
    (dd_pc = "done" /\ radius_m > 0) =>
       \A i, j \in 1..Len(deduped) :
          i # j => Dist2(deduped[i], deduped[j]) > radius_m * radius_m

\* a batch in which one pair exactly r apart was merged and two representatives
\* remain
C3_Witness ==
    /\ dd_pc = "done" /\ radius_m > 0
    /\ Len(deduped) = 2
    /\ \E i, j \in 1..Len(detections) :
          /\ Dist2(detections[i], detections[j]) = radius_m * radius_m
          /\ i # j

\* the cluster of detection i: everything reachable from it through pairs that
\* lie within the radius of each other
RECURSIVE Reach(_, _, _)
Reach(ds, r, S) ==
    LET T == S \cup {j \in 1..Len(ds) : \E i \in S : InBall(ds[i], ds[j], r)}
    IN IF T = S THEN S ELSE Reach(ds, r, T)
ClusterOf(ds, r, i) == Reach(ds, r, {i})

\* a parent array of the finished union loop for the list ds: every detection
\* points at the first member of its cluster
ClusterParent(ds, r) == [i \in 1..Len(ds) |-> SetMin(ClusterOf(ds, r, i))]

\* C14: each emitted representative is the member of its cluster with the
\* smallest (file, id, x, y), and for every reordering of the input detections
\* the set of representative ids and the keep_id recorded for each detection
\* id are the same as for the order given.
C14_RepresentativeIndependentOfOrder ==
    (dd_pc = "done" /\ radius_m > 0) =>
       /\ \A k \in 1..Len(deduped) :
             \E i \in 1..Len(detections) :
                /\ detections[i].file = deduped[k].file
                /\ detections[i].id = deduped[k].id
                /\ \A j \in ClusterOf(detections, radius_m, i) :
                      ~RepKeyLess(detections[j], detections[i])
       /\ \A pi \in Perms(Len(detections)) :
             LET ds2 == Permute(detections, pi)
                 par2 == ClusterParent(ds2, radius_m)
                 reps2 == Deduped(ds2, par2)
                 idx2 == DedupeIndex(ds2, par2)
             IN /\ {reps2[k].id : k \in 1..Len(reps2)}
                      = {deduped[k].id : k \in 1..Len(deduped)}
                /\ DOMAIN idx2 = DOMAIN dedupe_index
                /\ \A id \in DOMAIN dedupe_index :
                      idx2[id].keep_id = dedupe_index[id].keep_id

\* C15: dedupe_index maps every original detection id to the id of the
\* representative kept for its cluster, with dropped true exactly when the
\* detection is not that representative, and the ids whose entry has
\* dropped = false are exactly the ids of the emitted representatives.
C15_IndexNamesRepresentatives ==
    (dd_pc = "done" /\ radius_m > 0) =>
       /\ \A i \in 1..Len(detections) :
             LET rep == RepOf(detections, ClusterOf(detections, radius_m, i))
             IN /\ detections[i].id \in DOMAIN dedupe_index
                /\ dedupe_index[detections[i].id].keep_id = detections[rep].id
                /\ dedupe_index[detections[i].id].dropped <=> (i # rep)
       /\ {id \in DOMAIN dedupe_index : ~dedupe_index[id].dropped}
             = {deduped[k].id : k \in 1..Len(deduped)}

\* the representatives emitted for the cluster that holds detection i
KeptFor(i) ==
    {k \in 1..Len(deduped) : deduped[k].dedupe_cluster_id = RootOf(parent, i) - 1}

MaxPoints == 3
MaxChunk == 2

\* np.inf in the DEM before any point arrived
Inf == 1000000

\* bounds handed to the passes and the cell size
TileBounds == [mins |-> <<0, 0>>, maxs |-> grid_cfg.maxs, cell_res |-> 25]

CeilDiv(a, b) == (a + b - 1) \div b

\* _grid_shape: (ny, nx)
GridShapeNoPad(mins, maxs, res) ==
    [ny |-> Max2(CeilDiv(maxs[2] - mins[2], res), 1),
     nx |-> Max2(CeilDiv(maxs[1] - mins[1], res), 1)]
GridShape(mins, maxs, res) ==
    [ny |-> CeilDiv(maxs[2] - mins[2], res) + 1,
     nx |-> CeilDiv(maxs[1] - mins[1], res) + 1]

DemCells == GridOf(GridShape(TileBounds.mins, TileBounds.maxs, TileBounds.cell_res).ny,
                   GridShape(TileBounds.mins, TileBounds.maxs, TileBounds.cell_res).nx)

\* _bin_indices: cell <<iy, ix>> of a point, and whether it falls inside the grid
BinOf(pt) ==
    <<(pt.y - TileBounds.mins[2]) \div TileBounds.cell_res,
      (pt.x - TileBounds.mins[1]) \div TileBounds.cell_res>>
BinValid(pt) == BinOf(pt) \in DemCells

\* the points a tile may hold; the point at x = 80 lies outside the bounds
PointPool ==
    {[x |-> 0, y |-> 0, z |-> 110], [x |-> 10, y |-> 5, z |-> 140],
     [x |-> 30, y |-> 0, z |-> 120], [x |-> 50, y |-> 25, z |-> 90],
     [x |-> 30, y |-> 0, z |-> 170], [x |-> 80, y |-> 0, z |-> 50]}

TilePoints == UNION {[1..n -> PointPool] : n \in 0..MaxPoints}

\* _stream_points: the chunk starting behind `off`
ChunkAt(pts, off, cs) == SubSeq(pts, off + 1, Min2(off + cs, Len(pts)))
ValidOf(chunk) == SelectSeq(chunk, BinValid)

\* np.minimum.at(dem_flat, flat, z): applied element by element
RECURSIVE AssignAt(_, _)
AssignAt(arr, ps) ==
    IF ps = <<>> THEN arr
    ELSE AssignAt([arr EXCEPT ![BinOf(Head(ps))] = Head(ps).z], Tail(ps))
RECURSIVE MinimumAt(_, _)
MinimumAt(arr, ps) ==
    IF ps = <<>> THEN arr
    ELSE MinimumAt([arr EXCEPT ![BinOf(Head(ps))] = Min2(@, Head(ps).z)], Tail(ps))

\* global_min_z: None (<<>>) or the smallest valid z seen so far
UpdateGlobalMin(g, valid) ==
    IF valid = <<>> THEN g
    ELSE LET m == SetMin({valid[i].z : i \in 1..Len(valid)})
         IN IF g = <<>> THEN <<m>> ELSE <<Min2(g[1], m)>>

\* ndi.distance_transform_edt(~finite, return_indices=True): the nearest cell
\* that holds data; among equally near cells the build's fixed rule decides
CellDist2(a, b) == (a[1] - b[1]) * (a[1] - b[1]) + (a[2] - b[2]) * (a[2] - b[2])
RasterBefore(a, b) == a[1] < b[1] \/ (a[1] = b[1] /\ a[2] <= b[2])
NearestFinite(d, c, tie) ==
    LET fin == {q \in DOMAIN d : d[q] # Inf}
        near == {q \in fin : \A q2 \in fin : CellDist2(c, q) <= CellDist2(c, q2)}
    IN IF tie = "first"
       THEN CHOOSE q \in near : \A q2 \in near : RasterBefore(q, q2)
       ELSE CHOOSE q \in near : \A q2 \in near : RasterBefore(q2, q)

\* 429-443: replace inf cells
FillDemSkipped(d, g, tie) == d
FillDem(d, g, tie) ==
    IF \A c \in DOMAIN d : d[c] = Inf
    THEN [c \in DOMAIN d |-> IF g = <<>> THEN 0 ELSE g[1]]
    ELSE [c \in DOMAIN d |-> IF d[c] = Inf THEN d[NearestFinite(d, c, tie)] ELSE d[c]]

\* ground surface returned by build_ground_dem: the filled minimum grid, or
\* the q05 estimate where there is one
ChooseGround(d, q, ground_method) ==
    IF ground_method = "min" THEN d
    ELSE [c \in DOMAIN d |-> IF q[c] = <<>> THEN d[c] ELSE q[c][1]]

\* one update per sample, in the order of arrival
RECURSIVE OnlineQuantileUpdateSequential(_, _, _, _, _)
OnlineQuantileUpdateSequential(q, ground, ps, p, lr) ==
    IF ps = <<>> THEN q
    ELSE LET c == BinOf(Head(ps))
             v == Head(ps).z - ground[c]
             q0 == IF q[c] = <<>> THEN v ELSE q[c][1]
             below == IF v <= q0 THEN 1 ELSE 0
         IN OnlineQuantileUpdateSequential(
                [q EXCEPT ![c] = <<q0 + (lr * (p - 100 * below)) \div 100>>],
                ground, Tail(ps), p, lr)

\* _online_quantile_update_indexed over the valid points of one chunk; the
\* sample of a point is its height above `ground`; p in percent; an estimate
\* is <<>> (NaN) or <<v>>
OnlineQuantileUpdate(q, ground, ps, p, lr) ==
    LET val(i) == ps[i].z - ground[BinOf(ps[i])]
        at(c) == {i \in 1..Len(ps) : BinOf(ps[i]) = c}
        init(c) == IF p <= 50 THEN SetMin({val(i) : i \in at(c)})
                   ELSE SetMax({val(i) : i \in at(c)})
        q0(c) == IF q[c] = <<>> THEN init(c) ELSE q[c][1]
        counts(c) == Cardinality(at(c))
        below_counts(c) == Cardinality({i \in at(c) : val(i) <= q0(c)})
    IN [c \in DOMAIN q |->
          IF at(c) = {} THEN q[c]
          ELSE <<q0(c) + (lr * (p * counts(c) - 100 * below_counts(c)))
                             \div (100 * counts(c))>>]

\* np.maximum.at(hag_flat, flat, z_valid - dem[iy, ix])
\* the last height written wins instead of the largest
RECURSIVE AssignHagAt(_, _, _)
AssignHagAt(arr, ground, ps) ==
    IF ps = <<>> THEN arr
    ELSE AssignHagAt([arr EXCEPT ![BinOf(Head(ps))] =
                          Head(ps).z - ground[BinOf(Head(ps))]],
                     ground, Tail(ps))

RECURSIVE MaximumAt(_, _, _)
MaximumAt(arr, ground, ps) ==
    IF ps = <<>> THEN arr
    ELSE MaximumAt([arr EXCEPT ![BinOf(Head(ps))] =
                        Max2(@, Head(ps).z - ground[BinOf(Head(ps))])],
                   ground, Tail(ps))

\* 482-483: np.where(np.isnan(q95), hag, q95) when top_method = p95
WhereNoEstimate(q, h, top_method) ==
    IF top_method = "p95"
    THEN [c \in DOMAIN h |-> IF q[c] = <<>> THEN h[c] ELSE q[c][1]]
    ELSE h

\* 484-491: clip to [0, mean + cap * std] when the grid is not flat; the cap
\* value is rounded down to a whole unit
ZscoreCap(h, top_method, top_zscore_cap) ==
    LET n == Cardinality(DOMAIN h)
        sum == SumOver(DOMAIN h, h)
        sq == SumOver(DOMAIN h, [c \in DOMAIN h |-> h[c] * h[c]])
        nnvar == n * sq - sum * sum
        cap == (sum + top_zscore_cap.v * ISqrt(nnvar, 0, n * SetMax({h[c] : c \in DOMAIN h}))) \div n
    IN IF top_zscore_cap.some /\ top_method # "p95" /\ nnvar > 0
       THEN [c \in DOMAIN h |-> Min2(Max2(h[c], 0), cap)]
       ELSE h

\* np.clip(hag, 0, None)
ClipNonNegativeOff(h) == h
ClipNonNegative(h) == [c \in DOMAIN h |-> Max2(h[c], 0)]

\* the learning rate of both quantile surfaces, 0.05 m
QuantileLr == 600

\* the configurations of the two passes
GridConfigs ==
    [ground_method : {"min", "p05"}, top_method : {"max", "p95"},
     top_zscore_cap : {None, Some(1)}, maxs : {<<50, 25>>, <<40, 25>>, <<0, 0>>}]

GridStart ==
    /\ las_points \in TilePoints
    /\ chunk_size \in 1..MaxChunk
    /\ edt_tie \in {"first", "last"}
    /\ grid_cfg \in GridConfigs
    /\ grid_pc = "dem"
    /\ offset = 0
    /\ dem = [c \in DemCells |-> Inf]
    /\ global_min_z = <<>>
    /\ hag_grid = [c \in DemCells |-> 0]
    /\ q05 = [c \in DemCells |-> <<>>]
    /\ q95 = [c \in DemCells |-> <<>>]

\* build_ground_dem 408-427: one chunk of the first pass
DemChunk ==
    /\ grid_pc = "dem" /\ offset < Len(las_points)
    /\ LET valid == ValidOf(ChunkAt(las_points, offset, chunk_size))
       IN /\ global_min_z' = UpdateGlobalMin(global_min_z, valid)
          /\ dem' = MinimumAt(dem, valid)
          /\ q05' = IF grid_cfg.ground_method # "min"
                    THEN OnlineQuantileUpdate(q05, [c \in DemCells |-> 0], valid, 5,
                                              QuantileLr)
                    ELSE q05
    /\ offset' = Min2(offset + chunk_size, Len(las_points))
    /\ UNCHANGED <<las_points, chunk_size, edt_tie, grid_pc, hag_grid, grid_cfg, q95>>
    /\ UNCHANGED <<detVars, ddVars, fusVars, aoiVars, tileVars, batchVars>>

\* build_ground_dem 429-451: fill cells without data, return the ground grid
DemFinalize ==
    /\ grid_pc = "dem" /\ offset = Len(las_points)
    /\ dem' = ChooseGround(FillDem(dem, global_min_z, edt_tie), q05,
                           grid_cfg.ground_method)
    /\ offset' = 0
    /\ grid_pc' = "hag"
    /\ UNCHANGED <<las_points, chunk_size, edt_tie, global_min_z, hag_grid, grid_cfg,
                   q05, q95>>
    /\ UNCHANGED <<detVars, ddVars, fusVars, aoiVars, tileVars, batchVars>>

\* build_hag_grid 465-480: one chunk of the second pass
HagChunk ==
    /\ grid_pc = "hag" /\ offset < Len(las_points)
    /\ LET valid == ValidOf(ChunkAt(las_points, offset, chunk_size))
       IN IF grid_cfg.top_method = "p95"
          THEN /\ q95' = OnlineQuantileUpdate(q95, dem, valid, 95, QuantileLr)
               /\ hag_grid' = hag_grid
          ELSE /\ hag_grid' = MaximumAt(hag_grid, dem, valid)
               /\ q95' = q95
    /\ offset' = Min2(offset + chunk_size, Len(las_points))
    /\ UNCHANGED <<las_points, chunk_size, edt_tie, grid_pc, dem, global_min_z,
                   grid_cfg, q05>>
    /\ UNCHANGED <<detVars, ddVars, fusVars, aoiVars, tileVars, batchVars>>

\* build_hag_grid 481-493: clip and return
HagFinalize ==
    /\ grid_pc = "hag" /\ offset = Len(las_points)
    /\ hag_grid' = ClipNonNegative(
                       ZscoreCap(WhereNoEstimate(q95, hag_grid, grid_cfg.top_method),
                                 grid_cfg.top_method, grid_cfg.top_zscore_cap))
    /\ grid_pc' = "done"
    /\ UNCHANGED <<las_points, chunk_size, edt_tie, offset, dem, global_min_z,
                   grid_cfg, q05, q95>>
    /\ UNCHANGED <<detVars, ddVars, fusVars, aoiVars, tileVars, batchVars>>

NextGrid ==
    \/ DemChunk
    \/ DemFinalize
    \/ HagChunk
    \/ HagFinalize

\* the same points in one fixed order: ascending (x, y, z)
PointLess(a, b) ==
    a.x < b.x \/ (a.x = b.x /\ (a.y < b.y \/ (a.y = b.y /\ a.z < b.z)))
RECURSIVE CanonicalOrder(_)
CanonicalOrder(pts) ==
    IF pts = <<>> THEN <<>>
    ELSE LET rest == CanonicalOrder(Tail(pts))
             k == Cardinality({i \in 1..Len(rest) : PointLess(rest[i], Head(pts))})
         IN SubSeq(rest, 1, k) \o <<Head(pts)>> \o SubSeq(rest, k + 1, Len(rest))

\* both passes over the points presented as a single chunk
OneChunkDem(pts, tie) ==
    FillDem(MinimumAt([c \in DemCells |-> Inf], ValidOf(pts)),
            UpdateGlobalMin(<<>>, ValidOf(pts)), tie)
OneChunkHag(pts, tie) ==
    ClipNonNegative(ZscoreCap(MaximumAt([c \in DemCells |-> 0], OneChunkDem(pts, tie),
                                        ValidOf(pts)),
                              "max", grid_cfg.top_zscore_cap))

\* C4: with ground_method = min and top_method = max the DEM and the HAG grid
\* are the same for every order of the tile's points and every chunking: each
\* streamed run ends with the grids a single chunk in ascending point order
\* gives, and so with the same detections.
C4_OrderAndChunkInvariant ==
    (grid_pc = "done" /\ grid_cfg.ground_method = "min" /\ grid_cfg.top_method = "max") =>
       /\ dem = OneChunkDem(CanonicalOrder(las_points), edt_tie)
       /\ hag_grid = OneChunkHag(CanonicalOrder(las_points), edt_tie)

\* a run over several chunks, in another order than the ascending one, in
\* which one cell received two different heights and another cell was filled
C4_Witness ==
    /\ grid_pc = "done"
    /\ grid_cfg.ground_method = "min" /\ grid_cfg.top_method = "max"
    /\ chunk_size < Len(las_points)
    /\ las_points # CanonicalOrder(las_points)
    /\ \E i, j \in 1..Len(las_points) :
          /\ BinValid(las_points[i]) /\ BinValid(las_points[j])
          /\ BinOf(las_points[i]) = BinOf(las_points[j])
          /\ las_points[i].z < las_points[j].z /\ i < j
    /\ \E c \in DemCells : \A i \in 1..Len(las_points) : BinOf(las_points[i]) # c

\* build_ground_dem has returned its grid
DemReturned == grid_pc \in {"hag", "done"}
\* the points streamed into cell c, and the cells nearest to c that got any
PointsIn(c) == {i \in 1..Len(las_points) : BinValid(las_points[i]) /\ BinOf(las_points[i]) = c}
NearestReceivers(c) ==
    LET got == {n \in DemCells : PointsIn(n) # {}}
    IN {n \in got : \A n2 \in got : CellDist2(c, n) <= CellDist2(c, n2)}
NoCellReceived == \A c \in DemCells : PointsIn(c) = {}
EveryCellFinite ==
    /\ DOMAIN dem = DemCells
    /\ \A c \in DemCells : dem[c] \in Int /\ dem[c] < Inf /\ dem[c] > 0 - Inf
EmptyDegenerateIsZero ==
    (las_points = <<>> /\ TileBounds.maxs = TileBounds.mins) =>
        (DOMAIN dem = GridOf(1, 1) /\ \A c \in DOMAIN dem : dem[c] = 0)

\* C18 as stated: the grid build_ground_dem returns is finite in every cell,
\* under either ground method; a cell that received no point holds the value
\* the returned grid has at a nearest cell that received one; a tile with no
\* points and degenerate bounds gives a 1x1 grid equal to 0.
C18_FiniteAndFilledFromNearestCell ==
    DemReturned =>
       /\ EveryCellFinite
       /\ \A c \in DemCells :
             (PointsIn(c) = {} /\ ~NoCellReceived) =>
                 \E n \in NearestReceivers(c) : dem[c] = dem[n]
       /\ EmptyDegenerateIsZero

\* C18 amended: the grid build_ground_dem returns is finite in every cell,
\* under either ground method; a cell that received no point holds the
\* minimum Z of a nearest cell that received one (under p05 that cell itself
\* holds its q05 estimate, not its minimum); a tile with no points and
\* degenerate bounds gives a 1x1 grid equal to 0.
C18_FiniteAndFilledWithNearestMinimum ==
    DemReturned =>
       /\ EveryCellFinite
       /\ \A c \in DemCells :
             (PointsIn(c) = {} /\ ~NoCellReceived) =>
                 \E n \in NearestReceivers(c) :
                     dem[c] = SetMin({las_points[i].z : i \in PointsIn(n)})
       /\ EmptyDegenerateIsZero

\* a p05 grid in which a cell without points was filled while its nearest
\* cell with points holds a different value
C18_Witness ==
    /\ DemReturned
    /\ grid_cfg.ground_method = "p05"
    /\ \E c \in DemCells :
          /\ PointsIn(c) = {} /\ ~NoCellReceived
          /\ \A n \in NearestReceivers(c) : dem[c] # dem[n]

\* C19: when no cell of the grid received a point, every cell of the DEM is
\* the smallest Z among the streamed points, and 0 only when the stream held
\* no point at all.
C19_EmptyGridTakesGlobalMinZ ==
    (DemReturned /\ NoCellReceived) =>
        \A c \in DemCells :
            dem[c] = IF las_points = <<>> THEN 0
                     ELSE SetMin({las_points[i].z : i \in 1..Len(las_points)})

\* C20: the grid build_hag_grid returns has the DEM's shape and holds a
\* number >= 0 in every cell, for both top methods, with and without the
\* outlier cap, and for every streamed input including the empty one.
C20_HagNonNegativeNeverNaN ==
    grid_pc = "done" =>
       /\ DOMAIN hag_grid = DOMAIN dem
       /\ \A c \in DOMAIN hag_grid : hag_grid[c] \in Nat

\* a p95 run in which a cell's estimate ended below zero and was clipped
C20_Witness ==
    /\ grid_pc = "done"
    /\ grid_cfg.top_method = "p95"
    /\ \E c \in DemCells : q95[c] # <<>> /\ q95[c][1] < 0 /\ hag_grid[c] = 0

\* the valid points of the chunk the pass is about to stream
NextValid == ValidOf(ChunkAt(las_points, offset, chunk_size))

\* C22: the online quantile update does not depend on the order of the
\* samples inside a chunk: whenever a pass streams a chunk into the q05 or the
\* q95 surface, the estimates after the chunk are the ones every reordering of
\* the chunk's samples gives from the same estimates before it, also for
\* cells whose estimate was absent and starts from the chunk's cell minimum
\* (p = 0.05) or maximum (p = 0.95).
C22_QuantileUpdateOrderInvariant ==
    [][/\ (grid_pc = "dem" /\ offset' > offset /\ grid_cfg.ground_method = "p05") =>
            \A pi \in Perms(Len(NextValid)) :
                q05' = OnlineQuantileUpdate(q05, [c \in DemCells |-> 0],
                                            Permute(NextValid, pi), 5, QuantileLr)
       /\ (grid_pc = "hag" /\ offset' > offset /\ grid_cfg.top_method = "p95") =>
            \A pi \in Perms(Len(NextValid)) :
                q95' = OnlineQuantileUpdate(q95, dem, Permute(NextValid, pi), 95,
                                            QuantileLr)]_vars

\* a p95 run whose first chunk brought two different heights into one cell
\* that had no estimate yet
C22_Witness ==
    /\ grid_pc = "hag" /\ grid_cfg.top_method = "p95"
    /\ chunk_size >= 2 /\ offset = 2
    /\ BinValid(las_points[1]) /\ BinValid(las_points[2])
    /\ BinOf(las_points[1]) = BinOf(las_points[2])
    /\ las_points[1].z # las_points[2].z
    /\ q95[BinOf(las_points[1])] # <<>>

\* a point whose x and y lie within the bounds handed to the passes
WithinBounds(pt) ==
    /\ TileBounds.mins[1] <= pt.x /\ pt.x <= TileBounds.maxs[1]
    /\ TileBounds.mins[2] <= pt.y /\ pt.y <= TileBounds.maxs[2]
\* n = ceil(extent / res) + 1, stated without the division
IsCeilPlusOne(n, extent, res) ==
    /\ (n - 1) * res >= extent
    /\ (n - 1 = 0 \/ (n - 2) * res < extent)

\* C21: the grid has ny = ceil((max_y - min_y)/R) + 1 rows and nx likewise
\* columns, so bounds with max = min give a 1x1 grid; every point whose x and
\* y lie within the bounds is binned to a cell of the grid, and once its
\* chunk has been streamed the cell's running minimum has taken it in.
C21_ShapeCoversBounds ==
    grid_pc \in {"dem", "hag", "done"} =>
       LET shape == GridShape(TileBounds.mins, TileBounds.maxs, TileBounds.cell_res)
       IN /\ IsCeilPlusOne(shape.ny, TileBounds.maxs[2] - TileBounds.mins[2],
                           TileBounds.cell_res)
          /\ IsCeilPlusOne(shape.nx, TileBounds.maxs[1] - TileBounds.mins[1],
                           TileBounds.cell_res)
          /\ DOMAIN dem = GridOf(shape.ny, shape.nx)
          /\ (TileBounds.maxs = TileBounds.mins => DOMAIN dem = {<<0, 0>>})
          /\ \A i \in 1..Len(las_points) :
                WithinBounds(las_points[i]) =>
                   /\ BinOf(las_points[i])[1] \in 0..(shape.ny - 1)
                   /\ BinOf(las_points[i])[2] \in 0..(shape.nx - 1)
                   /\ BinValid(las_points[i])
                   /\ (grid_pc = "dem" /\ i <= offset) =>
                          dem[BinOf(las_points[i])] <= las_points[i].z

\* the first pass has streamed a point that lies on the upper corner of
\* non-degenerate bounds, and the last cell of the grid holds its height
C21_Witness ==
    /\ grid_pc = "dem" /\ offset = Len(las_points)
    /\ TileBounds.maxs # TileBounds.mins
    /\ \E i \in 1..Len(las_points) :
          /\ <<las_points[i].x, las_points[i].y>> = TileBounds.maxs
          /\ dem[BinOf(las_points[i])] = las_points[i].z

\* C30: with ground_method = min, top_method = max and no outlier cap, after
\* the two passes the HAG of every cell that received points is the largest Z
\* minus the smallest Z among the points binned to it, and the HAG of a cell
\* that received no point is 0; a cell holding a single point has HAG 0.
C30_HagIsCellRange ==
    (/\ grid_pc = "done"
     /\ grid_cfg.ground_method = "min" /\ grid_cfg.top_method = "max"
     /\ grid_cfg.top_zscore_cap = None) =>
       \A c \in DemCells :
          LET zs == {las_points[i].z : i \in PointsIn(c)}
          IN /\ zs # {} => hag_grid[c] = SetMax(zs) - SetMin(zs)
             /\ zs = {} => hag_grid[c] = 0
             /\ Cardinality(PointsIn(c)) = 1 => hag_grid[c] = 0

\* a finished run in which one cell got a higher point before a lower one,
\* another cell got a single point and a third cell got none
C30_Witness ==
    /\ grid_pc = "done"
    /\ grid_cfg.ground_method = "min" /\ grid_cfg.top_method = "max"
    /\ grid_cfg.top_zscore_cap = None
    /\ \E c \in DemCells : \E i, j \in PointsIn(c) :
          i < j /\ las_points[i].z > las_points[j].z /\ hag_grid[c] > 0
    /\ \E c \in DemCells : Cardinality(PointsIn(c)) = 1
    /\ \E c \in DemCells : PointsIn(c) = {}

\* ------------------------------------------------------------------------
\* fusion.run: spatial join of LiDAR and thermal detections
\* ------------------------------------------------------------------------
MaxFusionDets == 2

\* Optional values of the JSON documents

\* detections of a summary; one LiDAR record carries no coordinates
LidarDetPool == {[hasxy |-> TRUE, x |-> 0, y |-> 0], [hasxy |-> TRUE, x |-> 20, y |-> 10],
                 [hasxy |-> FALSE, x |-> 0, y |-> 0]}
\* (30, 40) is exactly 50 cm from (0, 0)
ThermalDetPool == {[hasxy |-> TRUE, x |-> 10, y |-> 0], [hasxy |-> TRUE, x |-> 30, y |-> 40],
                   [hasxy |-> FALSE, x |-> 0, y |-> 0]}

\* a summary JSON on disk: missing, or an object with optional "crs" and the
\* detections at top level ("detections"), per file ("files") or not at all
Summaries(pool, forms) ==
    [exists : {TRUE}, crs : {"none", "EPSG:32720", "EPSG:5345"}, form : forms,
     dets : UNION {[1..k -> pool] : k \in 0..MaxFusionDets}]

FusionInputs ==
    [lidar_summary : Summaries(LidarDetPool, {"detections", "files", "none"})
                        \cup {[exists |-> FALSE, crs |-> "none", form |-> "none",
                                dets |-> <<>>]},
     thermal_summary : Summaries(ThermalDetPool, {"detections", "files"}),
     match_radius_m : {50}]

\* _extract_detections: tag each record with its source (and file)
ExtractDetections(summary, source) ==
    [i \in 1..Len(summary.dets) |->
        [hasxy |-> summary.dets[i].hasxy, x |-> summary.dets[i].x,
         y |-> summary.dets[i].y, source |-> source,
         file |-> IF summary.form = "files" THEN "tile" ELSE "none"]]

\* _xy_from_dets: indices of the records that carry x and y
XyIndices(ds) == {i \in 1..Len(ds) : ds[i].hasxy}

\* tree.query(k=1, distance_upper_bound=r): a nearest thermal point strictly
\* closer than r, or 0 when there is none
AnyWithin(l, ts, tidx, r, j) ==
    IF \E k \in tidx : Dist2(l, ts[k]) < r * r
    THEN j \in tidx /\ Dist2(l, ts[j]) < r * r
    ELSE j = 0
NearestWithin(l, ts, tidx, r, j) ==
    IF \E k \in tidx : Dist2(l, ts[k]) < r * r
    THEN /\ j \in tidx
         /\ Dist2(l, ts[j]) < r * r
         /\ \A k \in tidx : Dist2(l, ts[j]) <= Dist2(l, ts[k])
    ELSE j = 0

\* lidar_matches for every choice the tree may make between equally near points
MatchChoices(ls, ts, r) ==
    {m \in [1..Len(ls) -> 0..Len(ts)] :
        \A i \in 1..Len(ls) :
           IF i \in XyIndices(ls) /\ XyIndices(ts) # {}
           THEN NearestWithin(ls[i], ts, XyIndices(ts), r, m[i])
           ELSE m[i] = 0}

\* thermal_matched[k] is set when some LiDAR match points at k;
\* thermal_matched_count = sum(1 for m in thermal_matched if m)
ThermalMatched(ls, ts, m) == [k \in 1..Len(ts) |-> \E i \in 1..Len(ls) : m[i] = k]
ThermalMatchedCountPerLidar(ls, ts, m) == Cardinality({i \in 1..Len(ls) : m[i] # 0})
ThermalMatchedCount(ls, ts, m) ==
    Cardinality({k \in 1..Len(ts) : ThermalMatched(ls, ts, m)[k]})

\* the rollup dictionary of _join_detections (distances as squared centimetres)
Rollup(ls, ts, r, m) ==
    LET lidar_matched_count == Cardinality({i \in 1..Len(ls) : m[i] # 0})
        thermal_matched == ThermalMatched(ls, ts, m)
        thermal_matched_count == ThermalMatchedCount(ls, ts, m)
    IN [match_radius_m |-> r,
        lidar_count |-> Len(ls),
        thermal_count |-> Len(ts),
        lidar_matched_count |-> lidar_matched_count,
        thermal_matched_count |-> thermal_matched_count,
        lidar_only_count |-> Len(ls) - lidar_matched_count,
        thermal_only_count |-> Len(ts) - thermal_matched_count,
        lidar |-> [i \in 1..Len(ls) |->
            [det |-> ls[i],
             match_thermal_index |-> IF m[i] = 0 THEN None ELSE Some(m[i] - 1),
             match_dist_m |-> IF m[i] = 0 THEN None ELSE Some(Dist2(ls[i], ts[m[i]])),
             label |-> IF m[i] # 0 THEN "both" ELSE "lidar_only"]],
        thermal |-> [k \in 1..Len(ts) |->
            [det |-> ts[k],
             matched_by_lidar |-> thermal_matched[k],
             label |-> IF thermal_matched[k] THEN "both" ELSE "thermal_only"]]]

NoFile == [written |-> FALSE]
FileWith(doc) == [written |-> TRUE, doc |-> doc]

FusionStart ==
    /\ fparams \in FusionInputs
    /\ fus_pc = "start"
    /\ lidar_dets = <<>>
    /\ thermal_dets = <<>>
    /\ fus_out = None
    /\ fus_file = NoFile
    /\ fus_error = "none"

\* 35-36: _load_json of both summaries
FusionLoad ==
    /\ fus_pc = "start"
    /\ IF fparams.lidar_summary.exists /\ fparams.thermal_summary.exists
       THEN fus_pc' = "loaded" /\ UNCHANGED fus_error
       ELSE fus_pc' = "failed" /\ fus_error' = "FileNotFoundError"
    /\ UNCHANGED <<fparams, lidar_dets, thermal_dets, fus_out, fus_file>>
    /\ UNCHANGED <<detVars, ddVars, gridVars, aoiVars, tileVars, batchVars>>

\* 38-39: _extract_detections of both summaries
FusionExtract ==
    /\ fus_pc = "loaded"
    /\ IF fparams.lidar_summary.form = "none" \/ fparams.thermal_summary.form = "none"
       THEN /\ fus_pc' = "failed"
            /\ fus_error' = "ValueError: Unsupported summary format"
            /\ UNCHANGED <<lidar_dets, thermal_dets>>
       ELSE /\ lidar_dets' = ExtractDetections(fparams.lidar_summary, "lidar")
            /\ thermal_dets' = ExtractDetections(fparams.thermal_summary, "thermal")
            /\ fus_pc' = "extracted"
            /\ UNCHANGED fus_error
    /\ UNCHANGED <<fparams, fus_out, fus_file>>
    /\ UNCHANGED <<detVars, ddVars, gridVars, aoiVars, tileVars, batchVars>>

\* 41-45: _join_detections
FusionJoin ==
    /\ fus_pc = "extracted"
    /\ \E m \in MatchChoices(lidar_dets, thermal_dets, fparams.match_radius_m) :
          fus_out' = Some(Rollup(lidar_dets, thermal_dets, fparams.match_radius_m, m))
    /\ fus_pc' = "joined"
    /\ UNCHANGED <<fparams, lidar_dets, thermal_dets, fus_file, fus_error>>
    /\ UNCHANGED <<detVars, ddVars, gridVars, aoiVars, tileVars, batchVars>>

\* 47-49: write the rollup
FusionWrite ==
    /\ fus_pc = "joined"
    /\ fus_file' = FileWith(fus_out.v)
    /\ fus_pc' = "written"
    /\ UNCHANGED <<fparams, lidar_dets, thermal_dets, fus_out, fus_error>>
    /\ UNCHANGED <<detVars, ddVars, gridVars, aoiVars, tileVars, batchVars>>

NextFusion ==
    \/ FusionLoad
    \/ FusionExtract
    \/ FusionJoin
    \/ FusionWrite

\* rollup of a finished join
JoinDone == fus_pc \in {"joined", "written"}
LabelledBoth(rows) == {i \in 1..Len(rows) : rows[i].label = "both"}

\* C11: in the fusion rollup the counts agree with the per-detection labels:
\* lidar_matched_count is the number of LiDAR rows labelled "both",
\* thermal_matched_count the number of thermal rows labelled "both" (a thermal
\* row counts once however many LiDAR rows point at it), and on each side
\* only_count + matched_count = count = number of rows.
C11_CountsAgreeWithLabels ==
    JoinDone =>
       LET o == fus_out.v
       IN /\ o.lidar_count = Len(o.lidar) /\ Len(o.lidar) = Len(lidar_dets)
          /\ o.thermal_count = Len(o.thermal) /\ Len(o.thermal) = Len(thermal_dets)
          /\ o.lidar_matched_count = Cardinality(LabelledBoth(o.lidar))
          /\ o.thermal_matched_count = Cardinality(LabelledBoth(o.thermal))
          /\ o.lidar_only_count + o.lidar_matched_count = o.lidar_count
          /\ o.thermal_only_count + o.thermal_matched_count = o.thermal_count
          /\ \A i \in 1..Len(o.lidar) : o.lidar[i].label \in {"both", "lidar_only"}
          /\ \A k \in 1..Len(o.thermal) : o.thermal[k].label \in {"both", "thermal_only"}

\* a written rollup in which two LiDAR detections point at one thermal detection
C11_Witness ==
    /\ fus_pc = "written"
    /\ fus_file.doc.lidar_matched_count = 2
    /\ fus_file.doc.thermal_matched_count = 1
    /\ fus_file.doc.thermal_count = 2

\* the join as read off the rollup: near is the set of located thermal
\* detections nearest to LiDAR detection i; inclusive says whether a distance of
\* exactly match_radius_m counts as within it
Located(ds) == {k \in 1..Len(ds) : ds[k].hasxy}
JoinMatchesNearest(inclusive) ==
    LET o == fus_out.v
        r == fparams.match_radius_m
    IN /\ \A i \in 1..Len(lidar_dets) :
             LET near == {k \in Located(thermal_dets) :
                             \A q \in Located(thermal_dets) :
                                Dist2(lidar_dets[i], thermal_dets[k])
                                   <= Dist2(lidar_dets[i], thermal_dets[q])}
             IN IF /\ lidar_dets[i].hasxy
                   /\ \E k \in near :
                         IF inclusive
                         THEN Dist2(lidar_dets[i], thermal_dets[k]) <= r * r
                         ELSE Dist2(lidar_dets[i], thermal_dets[k]) < r * r
                THEN /\ o.lidar[i].match_thermal_index.some
                     /\ o.lidar[i].match_thermal_index.v + 1 \in near
                     /\ o.lidar[i].match_dist_m =
                           Some(Dist2(lidar_dets[i],
                                      thermal_dets[o.lidar[i].match_thermal_index.v + 1]))
                ELSE /\ o.lidar[i].match_thermal_index = None
                     /\ o.lidar[i].match_dist_m = None
       /\ \A k \in 1..Len(thermal_dets) :
             o.thermal[k].matched_by_lidar <=>
                \E i \in 1..Len(lidar_dets) : o.lidar[i].match_thermal_index = Some(k - 1)

\* C12 (as stated): each LiDAR detection with x and y is matched to its single
\* nearest thermal detection when that one lies within match_radius_m (distance
\* <= match_radius_m), with index and distance recorded, and to none otherwise;
\* a thermal detection is flagged matched_by_lidar exactly when some LiDAR
\* match index points at it.
C12_MatchNearestWithinRadius == JoinDone => JoinMatchesNearest(TRUE)

\* C12 (amended): the same, with the nearest thermal detection matched only when
\* it is strictly closer than match_radius_m; one exactly match_radius_m away is
\* not matched.
C12_MatchNearestStrictlyWithinRadius == JoinDone => JoinMatchesNearest(FALSE)

\* a join in which one LiDAR detection is matched, another has its nearest
\* thermal detection exactly match_radius_m away, and an unlocated thermal
\* detection comes first in the list
C12_Witness ==
    /\ JoinDone
    /\ Len(lidar_dets) = 2 /\ Len(thermal_dets) = 2
    /\ ~thermal_dets[1].hasxy
    /\ thermal_dets[2] = [hasxy |-> TRUE, x |-> 30, y |-> 40, source |-> "thermal",
                          file |-> thermal_dets[2].file]
    /\ lidar_dets[1].hasxy /\ lidar_dets[1].x = 0
    /\ lidar_dets[2].hasxy /\ lidar_dets[2].x = 20
    /\ fus_out.v.lidar[1].match_thermal_index = None
    /\ fus_out.v.lidar[2].match_thermal_index = Some(1)

\* C8: when the CRS tags of the LiDAR and the thermal summary differ,
\* fusion.run fails with a CRS-mismatch error and writes no output file: such
\* a run never reaches the write and leaves no rollup behind.
C8_CrsMismatchRejected ==
    (/\ fus_pc # "idle"
     /\ fparams.lidar_summary.exists
     /\ fparams.lidar_summary.crs # "none"
     /\ fparams.thermal_summary.crs # "none"
     /\ fparams.lidar_summary.crs # fparams.thermal_summary.crs)
    => /\ ~fus_file.written
       /\ fus_pc # "written"

\* C27: the rollup fusion.run writes carries schema_version "1", purpose
\* "qc_alignment", temperature_calibrated false, and as crs the CRS tag the
\* LiDAR and the thermal summary share.
C27_RollupCarriesContractFields ==
    fus_file.written =>
       /\ {"schema_version", "purpose", "temperature_calibrated", "crs"}
              \subseteq DOMAIN fus_file.doc
       /\ fus_file.doc.schema_version = "1"
       /\ fus_file.doc.purpose = "qc_alignment"
       /\ fus_file.doc.temperature_calibrated = FALSE
       /\ (fparams.lidar_summary.crs = fparams.thermal_summary.crs) =>
             fus_file.doc.crs = fparams.lidar_summary.crs

\* ------------------------------------------------------------------------
\* aoi_eval: CRS tags.  Strings are sequences of character codes.
\* ------------------------------------------------------------------------
Txt ==
    [EPSG |-> <<69, 80, 83, 71>>,
     EpsgColon |-> <<69, 80, 83, 71, 58>>,
     EPSG4326 |-> <<69, 80, 83, 71, 58, 52, 51, 50, 54>>,
     CRS84 |-> <<67, 82, 83, 56, 52>>,
     OgcCRS84 |-> <<79, 71, 67, 58, 67, 82, 83, 56, 52>>,
     WGS84 |-> <<87, 71, 83, 56, 52>>,
     UrnPrefixUpper |-> <<85, 82, 78, 58, 79, 71, 67, 58, 68, 69, 70, 58, 67, 82, 83, 58>>,
     UrnEpsg |-> <<117, 114, 110, 58, 111, 103, 99, 58, 100, 101, 102, 58, 99, 114, 115, 58, 69, 80, 83, 71, 58, 58>>,
     UrnCrs84 |-> <<117, 114, 110, 58, 111, 103, 99, 58, 100, 101, 102, 58, 99, 114, 115, 58, 79, 71, 67, 58, 49, 46, 51, 58, 67, 82, 83, 56, 52>>,
     Wkt |-> <<80, 82, 79, 74, 67, 83, 91, 34, 85, 84, 77, 32, 50, 48, 83, 34, 93>>]

IsSpace(c) == c \in {9, 10, 13, 32}
RECURSIVE LStrip(_)
LStrip(t) == IF t # <<>> /\ IsSpace(Head(t)) THEN LStrip(Tail(t)) ELSE t
RECURSIVE RStrip(_)
RStrip(t) ==
    IF t # <<>> /\ IsSpace(t[Len(t)]) THEN RStrip(SubSeq(t, 1, Len(t) - 1)) ELSE t
\* str.strip()
Strip(t) == RStrip(LStrip(t))
\* str.upper()
Upper(t) == [i \in 1..Len(t) |-> IF t[i] >= 97 /\ t[i] <= 122 THEN t[i] - 32 ELSE t[i]]
\* str.isdigit() on ASCII text
IsDigitStr(t) == t # <<>> /\ \A i \in 1..Len(t) : t[i] >= 48 /\ t[i] <= 57
\* int(text)
RECURSIVE ParseInt(_)
ParseInt(t) ==
    IF t = <<>> THEN 0
    ELSE 10 * ParseInt(SubSeq(t, 1, Len(t) - 1)) + (t[Len(t)] - 48)
\* str(int)
DecStr(n) == [k \in 1..Len(Digits(n)) |-> 48 + Digits(n)[k]]
StartsWith(t, pre) == Len(t) >= Len(pre) /\ SubSeq(t, 1, Len(pre)) = pre
\* sub in text
Contains(t, sub) ==
    \E i \in 0..(Len(t) - Len(sub)) : SubSeq(t, i + 1, i + Len(sub)) = sub
\* text.split(":")
RECURSIVE SplitColon(_)
SplitColon(t) ==
    LET at == {i \in 1..Len(t) : t[i] = 58}
    IN IF at = {} THEN <<t>>
       ELSE <<SubSeq(t, 1, SetMin(at) - 1)>> \o SplitColon(SubSeq(t, SetMin(at) + 1, Len(t)))

\* f"EPSG:{int(n)}"
EpsgLabel(n) == Txt.EpsgColon \o DecStr(n)

\* _normalize_crs_string; <<>> stands for None
NormalizeCrsStringNoUrn(value) ==
    LET cleaned == Strip(value)
        u == Upper(cleaned)
    IN IF cleaned = <<>> THEN <<>>
       ELSE IF u \in {Txt.CRS84, Txt.OgcCRS84, Txt.WGS84} THEN Txt.EPSG4326
       ELSE IF StartsWith(u, Txt.EpsgColon) /\ IsDigitStr(Strip(SubSeq(cleaned, 6, Len(cleaned))))
       THEN EpsgLabel(ParseInt(Strip(SubSeq(cleaned, 6, Len(cleaned)))))
       ELSE IF IsDigitStr(cleaned) THEN EpsgLabel(ParseInt(cleaned))
       ELSE cleaned
NormalizeCrsString(value) ==
    LET cleaned == Strip(value)
        u == Upper(cleaned)
        parts == SplitColon(cleaned)
        digitAt == {k \in 1..Len(parts) : IsDigitStr(Strip(parts[k]))}
        tail == Strip(SubSeq(cleaned, 6, Len(cleaned)))
    IN IF cleaned = <<>> THEN <<>>
       ELSE IF u \in {Txt.CRS84, Txt.OgcCRS84} THEN Txt.EPSG4326
       ELSE IF u = Txt.WGS84 THEN Txt.EPSG4326
       ELSE IF StartsWith(u, Txt.UrnPrefixUpper)
       THEN IF Contains(u, Txt.EPSG) /\ digitAt # {}
            THEN EpsgLabel(ParseInt(Strip(parts[SetMax(digitAt)])))
            ELSE cleaned
       ELSE IF StartsWith(u, Txt.EpsgColon)
       THEN IF IsDigitStr(tail) THEN EpsgLabel(ParseInt(tail)) ELSE cleaned
       ELSE IF IsDigitStr(cleaned) THEN EpsgLabel(ParseInt(cleaned))
       ELSE cleaned

\* values a "crs" member can hold
NullTag == [kind |-> "null", s |-> <<>>, n |-> 0]
StrTag(t) == [kind |-> "str", s |-> t, n |-> 0]
IntTag(n) == [kind |-> "int", s |-> <<>>, n |-> n]
\* {"type": "name", "properties": {"name": t}}
NameTag(t) == [kind |-> "name", s |-> t, n |-> 0]
\* {"epsg": n} and {"wkt": t}
EpsgDictTag(n) == [kind |-> "epsg", s |-> <<>>, n |-> n]
WktTag(t) == [kind |-> "wkt", s |-> t, n |-> 0]

\* _extract_crs_code
ExtractCrsCode(obj) ==
    LET crs == IF obj.crs.kind = "null" THEN obj.metadata_crs ELSE obj.crs
        cleaned == Strip(crs.s)
        upper == Upper(cleaned)
    IN CASE crs.kind = "null" -> <<>>
         [] crs.kind = "str" ->
               IF IsDigitStr(cleaned) THEN EpsgLabel(ParseInt(cleaned))
               ELSE IF upper \in {Txt.CRS84, Txt.OgcCRS84} THEN Txt.EPSG4326
               ELSE IF upper \in {Txt.WGS84, Txt.EPSG4326} THEN Txt.EPSG4326
               ELSE NormalizeCrsString(cleaned)
         [] crs.kind = "int" -> EpsgLabel(crs.n)
         [] crs.kind = "name" ->
               IF cleaned # <<>> /\ Contains(upper, Txt.CRS84) THEN Txt.EPSG4326
               ELSE IF cleaned # <<>> /\ Contains(upper, Txt.EPSG) /\ Contains(cleaned, <<58>>)
               THEN NormalizeCrsString(cleaned)
               ELSE <<>>
         [] crs.kind = "epsg" -> EpsgLabel(crs.n)
         [] crs.kind = "wkt" -> IF cleaned # <<>> THEN cleaned ELSE <<>>

\* _is_geographic_crs
IsGeographicCrsEpsgOnly(crs) ==
    crs # <<>> /\ Upper(Strip(NormalizeCrsString(crs))) = Txt.EPSG4326
IsGeographicCrs(crs) ==
    /\ crs # <<>>
    /\ LET u == Upper(Strip(NormalizeCrsString(crs)))
       IN \/ u = Txt.EPSG4326
          \/ u \in {Txt.CRS84, Txt.OgcCRS84}
          \/ Contains(u, Txt.CRS84)

\* ------------------------------------------------------------------------
\* aoi_eval: geometry (coordinates in metres, integer vertices)
\* ------------------------------------------------------------------------
Abs(n) == IF n < 0 THEN 0 - n ELSE n

\* MplPath(ring).contains_points: crossing number of the ray to the right of
\* p; the model's detections never lie on a ring
Crosses(p, a, b) ==
    /\ (a[2] > p[2]) # (b[2] > p[2])
    /\ IF b[2] > a[2]
       THEN (p[1] - a[1]) * (b[2] - a[2]) < (p[2] - a[2]) * (b[1] - a[1])
       ELSE (p[1] - a[1]) * (b[2] - a[2]) > (p[2] - a[2]) * (b[1] - a[1])
InsideRing(p, ring) ==
    Cardinality({i \in 1..Len(ring) :
                    Crosses(p, ring[i], ring[(i % Len(ring)) + 1])}) % 2 = 1

\* _points_in_polygon for one point: inside the outer ring, outside every hole
PointInOuterRing(p, rings) ==
    /\ rings # <<>>
    /\ Len(rings[1]) >= 3
    /\ InsideRing(p, rings[1])
PointInPolygon(p, rings) ==
    /\ rings # <<>>
    /\ Len(rings[1]) >= 3
    /\ InsideRing(p, rings[1])
    /\ \A k \in 2..Len(rings) : Len(rings[k]) >= 3 => ~InsideRing(p, rings[k])

\* _points_in_geometry for one point: union over the member polygons
PointInGeometry(p, geom) ==
    \E k \in 1..Len(geom.polys) : PointInPolygon(p, geom.polys[k])

\* twice _ring_area (shoelace)
TwiceRingArea(ring) ==
    IF Len(ring) < 3 THEN 0
    ELSE SumOver(1..Len(ring),
                 [i \in 1..Len(ring) |->
                    ring[i][1] * ring[(i % Len(ring)) + 1][2]
                       - ring[i][2] * ring[(i % Len(ring)) + 1][1]])

\* twice _polygon_area: |outer| minus |holes|, not below 0
TwicePolygonAreaOuterOnly(rings) ==
    IF rings = <<>> THEN 0 ELSE Abs(TwiceRingArea(rings[1]))
TwicePolygonArea(rings) ==
    IF rings = <<>> THEN 0
    ELSE Max2(Abs(TwiceRingArea(rings[1]))
                 - SumOver(2..Len(rings),
                           [k \in 2..Len(rings) |-> Abs(TwiceRingArea(rings[k]))]), 0)

\* twice _geometry_area_m2
TwiceGeometryArea(geom) ==
    SumOver(1..Len(geom.polys),
            [k \in 1..Len(geom.polys) |-> TwicePolygonArea(geom.polys[k])])

\* GeoJSON features: geometry type, polygons (each a list of rings), properties.id
FeatureLists ==
    LET Square == <<<<0, 0>>, <<10, 0>>, <<10, 10>>, <<0, 10>>, <<0, 0>>>>
        Hole == <<<<2, 2>>, <<4, 2>>, <<4, 4>>, <<2, 4>>, <<2, 2>>>>
        Square2 == <<<<5, 5>>, <<15, 5>>, <<15, 15>>, <<5, 15>>, <<5, 5>>>>
        TwoPointRing == <<<<0, 0>>, <<10, 10>>>>
        FeatSquare == [gtype |-> "Polygon", polys |-> <<<<Square>>>>, id |-> <<98>>]
        FeatHoled == [gtype |-> "Polygon", polys |-> <<<<Square, Hole>>>>, id |-> <<97>>]
        FeatMulti == [gtype |-> "MultiPolygon", polys |-> <<<<Square>>, <<Square2>>>>,
                      id |-> <<>>]
        FeatPoint == [gtype |-> "Point", polys |-> <<>>, id |-> <<112>>]
        FeatBadRing == [gtype |-> "Polygon", polys |-> <<<<TwoPointRing>>>>, id |-> <<114>>]
    IN {<<FeatSquare>>, <<FeatSquare, FeatHoled>>, <<FeatMulti, FeatSquare>>,
        <<FeatPoint>>, <<FeatBadRing, FeatPoint>>, <<>>}

\* detections of the LiDAR summary; the last has no coordinates, the third no id
AoiDets ==
    <<[hasxy |-> TRUE, x |-> 3, y |-> 3, id |-> <<116, 49, 58, 48, 48, 48, 48, 50>>],
      [hasxy |-> TRUE, x |-> 7, y |-> 7, id |-> <<116, 49, 58, 48, 48, 48, 48, 49>>],
      [hasxy |-> TRUE, x |-> 12, y |-> 12, id |-> <<>>],
      [hasxy |-> TRUE, x |-> 20, y |-> 20, id |-> <<116, 49, 58, 48, 48, 48, 48, 52>>],
      [hasxy |-> FALSE, x |-> 0, y |-> 0, id |-> <<116, 49, 58, 48, 48, 48, 48, 53>>]>>

\* zero-padded decimal of the given width (format specs 06d, 03d)
ZeroPad(n, width) ==
    LET ds == DecStr(n)
    IN IF Len(ds) >= width THEN ds ELSE [i \in 1..(width - Len(ds)) |-> 48] \o ds

\* _xy_and_ids: the records with x and y, each with its id or "det:<index 06d>"
XyAndIds(ds) ==
    LET idx == SortedSeq({i \in 1..Len(ds) : ds[i].hasxy})
    IN [k \in 1..Len(idx) |->
          [x |-> ds[idx[k]].x, y |-> ds[idx[k]].y,
           id |-> IF ds[idx[k]].id # <<>> THEN ds[idx[k]].id
                  ELSE <<100, 101, 116, 58>> \o ZeroPad(idx[k] - 1, 6)]]

\* _extract_aois: Polygon and MultiPolygon features with their aoi_id
ExtractAois(feats) ==
    LET idx == SortedSeq({i \in 1..Len(feats) :
                             feats[i].gtype \in {"Polygon", "MultiPolygon"}})
    IN [k \in 1..Len(idx) |->
          [aoi_id |-> IF feats[idx[k]].id # <<>> THEN feats[idx[k]].id
                      ELSE <<97, 111, 105, 95>> \o ZeroPad(idx[k] - 1, 3),
           properties |-> [id |-> feats[idx[k]].id],
           geometry |-> [gtype |-> feats[idx[k]].gtype, polys |-> feats[idx[k]].polys]]]

\* sorted(ids) and results.sort(key=aoi_id): insertion behind every element
\* that is not greater
RECURSIVE SortStrings(_)
SortStrings(ts) ==
    IF ts = <<>> THEN <<>>
    ELSE LET rest == SortStrings(SubSeq(ts, 1, Len(ts) - 1))
             t == ts[Len(ts)]
             k == Cardinality({i \in 1..Len(rest) : ~StrLess(t, rest[i])})
         IN SubSeq(rest, 1, k) \o <<t>> \o SubSeq(rest, k + 1, Len(rest))
RECURSIVE SortRows(_)
SortRows(rs) ==
    IF rs = <<>> THEN <<>>
    ELSE LET rest == SortRows(SubSeq(rs, 1, Len(rs) - 1))
             r == rs[Len(rs)]
             k == Cardinality({i \in 1..Len(rest) : ~StrLess(r.aoi_id, rest[i].aoi_id)})
         IN SubSeq(rest, 1, k) \o <<r>> \o SubSeq(rest, k + 1, Len(rest))

\* 54-75: the result row of one AOI
InsideIdx(pts, geom) ==
    {i \in 1..Len(pts) : PointInGeometry(<<pts[i].x, pts[i].y>>, geom)}
ResultRow(aoi, pts, geographic, emit) ==
    LET inside == InsideIdx(pts, aoi.geometry)
        cnt == Cardinality(inside)
        area2 == TwiceGeometryArea(aoi.geometry)
    IN [aoi_id |-> aoi.aoi_id,
        properties |-> aoi.properties,
        count |-> cnt,
        area_m2 |-> IF geographic THEN None ELSE Some(Rat(area2, 2)),
        density_per_ha |-> IF geographic \/ area2 <= 0 THEN None
                           ELSE Some(Rat(cnt * 20000, area2)),
        detection_ids |-> IF emit
                          THEN Some(SortStrings([k \in 1..cnt |->
                                       pts[SortedSeq(inside)[k]].id]))
                          ELSE None]

\* ------------------------------------------------------------------------
\* aoi_eval.run as a state machine
\* ------------------------------------------------------------------------
\* the LiDAR summary and the AOI GeoJSON as loaded, and the options of the run
AoiInputs ==
    LET LidarTags ==
            {NullTag, StrTag(EpsgLabel(32720)), StrTag(Txt.UrnEpsg \o DecStr(32720)),
             StrTag(DecStr(32720)), IntTag(32720), StrTag(EpsgLabel(5345)),
             StrTag(Txt.EPSG4326), NameTag(Txt.UrnCrs84)}
        AoiTags ==
            LidarTags \cup
            {StrTag(<<32, 101, 112, 115, 103, 58, 48>> \o DecStr(32720) \o <<32>>),
             StrTag(Txt.UrnCrs84), StrTag(Upper(Txt.CRS84)),
             NameTag(Txt.UrnEpsg \o DecStr(32720)),
             EpsgDictTag(5345), WktTag(Txt.Wkt)}
    IN
    [lidar : [crs : LidarTags, metadata_crs : {NullTag, StrTag(EpsgLabel(32720))},
              form : {"files", "none"}],
     aoi : [crs : AoiTags, metadata_crs : {NullTag},
            type : {"FeatureCollection"}, features : FeatureLists],
     aoi_crs_epsg : {None, Some(32720), Some(4326)},
     emit_detection_ids : {FALSE},
     allow_geographic_crs : BOOLEAN]
    \cup
    [lidar : [crs : {StrTag(EpsgLabel(32720))}, metadata_crs : {NullTag}, form : {"files"}],
     aoi : [crs : {NullTag, StrTag(Txt.EPSG4326)}, metadata_crs : {NullTag},
            type : {"FeatureCollection", "Feature"}, features : FeatureLists],
     aoi_crs_epsg : {None},
     emit_detection_ids : {TRUE},
     allow_geographic_crs : BOOLEAN]

AoiStart ==
    /\ aparams \in AoiInputs
    /\ aoi_pc = "start"
    /\ lidar_crs = <<>>
    /\ aoi_crs = <<>>
    /\ aois = <<>>
    /\ results = <<>>
    /\ aoi_file = NoFile
    /\ aoi_error = "none"

\* 37-40: canonical CRS of both inputs and the mismatch test
AoiCheckCrs ==
    /\ aoi_pc = "start"
    /\ lidar_crs' = ExtractCrsCode(aparams.lidar)
    /\ aoi_crs' = IF aparams.aoi_crs_epsg.some
                  THEN EpsgLabel(aparams.aoi_crs_epsg.v)
                  ELSE ExtractCrsCode(aparams.aoi)
    /\ IF lidar_crs' # <<>> /\ aoi_crs' # <<>> /\ lidar_crs' # aoi_crs'
       THEN aoi_pc' = "failed" /\ aoi_error' = "ValueError: CRS mismatch"
       ELSE aoi_pc' = "checked" /\ UNCHANGED aoi_error
    /\ UNCHANGED <<aparams, aois, results, aoi_file>>
    /\ UNCHANGED <<detVars, ddVars, gridVars, fusVars, tileVars, batchVars>>

\* 42-52: detections, AOIs, and the refusal of a geographic CRS
AoiExtract ==
    /\ aoi_pc = "checked"
    /\ IF aparams.lidar.form = "none"
       THEN /\ aoi_pc' = "failed"
            /\ aoi_error' = "ValueError: Unsupported LiDAR summary format"
            /\ UNCHANGED aois
       ELSE IF aparams.aoi.type # "FeatureCollection"
       THEN /\ aoi_pc' = "failed"
            /\ aoi_error' = "ValueError: AOI input must be a GeoJSON FeatureCollection"
            /\ UNCHANGED aois
       ELSE IF ExtractAois(aparams.aoi.features) = <<>>
       THEN /\ aoi_pc' = "failed"
            /\ aoi_error' = "ValueError: No Polygon/MultiPolygon AOIs found in GeoJSON"
            /\ UNCHANGED aois
       ELSE /\ aois' = ExtractAois(aparams.aoi.features)
            /\ IF /\ IsGeographicCrs(IF aoi_crs # <<>> THEN aoi_crs ELSE lidar_crs)
                  /\ ~aparams.allow_geographic_crs
               THEN /\ aoi_pc' = "failed"
                    /\ aoi_error' = "ValueError: AOI CRS appears geographic"
               ELSE aoi_pc' = "evaluating" /\ UNCHANGED aoi_error
    /\ UNCHANGED <<aparams, lidar_crs, aoi_crs, results, aoi_file>>
    /\ UNCHANGED <<detVars, ddVars, gridVars, fusVars, tileVars, batchVars>>

\* 53-75: one AOI of the loop
AoiRow ==
    /\ aoi_pc = "evaluating" /\ Len(results) < Len(aois)
    /\ results' = Append(results,
          ResultRow(aois[Len(results) + 1], XyAndIds(AoiDets),
                    IsGeographicCrs(IF aoi_crs # <<>> THEN aoi_crs ELSE lidar_crs),
                    aparams.emit_detection_ids))
    /\ UNCHANGED <<aparams, aoi_pc, lidar_crs, aoi_crs, aois, aoi_file, aoi_error>>
    /\ UNCHANGED <<detVars, ddVars, gridVars, fusVars, tileVars, batchVars>>

\* 77-94: sort the rows and write the report
AoiWrite ==
    /\ aoi_pc = "evaluating" /\ Len(results) = Len(aois)
    /\ results' = SortRows(results)
    /\ aoi_file' = FileWith(
          [schema_version |-> "1", purpose |-> "lidar_aoi_eval",
           crs |-> IF lidar_crs # <<>> THEN lidar_crs ELSE aoi_crs,
           lidar_crs |-> lidar_crs, aoi_crs |-> aoi_crs,
           total_detections |-> Len(XyAndIds(AoiDets)),
           aoi_count |-> Len(results),
           results |-> results'])
    /\ aoi_pc' = "written"
    /\ UNCHANGED <<aparams, lidar_crs, aoi_crs, aois, aoi_error>>
    /\ UNCHANGED <<detVars, ddVars, gridVars, fusVars, tileVars, batchVars>>

NextAoi ==
    \/ AoiCheckCrs
    \/ AoiExtract
    \/ AoiRow
    \/ AoiWrite

\* spellings of one EPSG code as a string-valued "crs" member
SpellingsOf(n) ==
    {StrTag(EpsgLabel(n)), StrTag(Txt.UrnEpsg \o DecStr(n)), StrTag(DecStr(n)), IntTag(n)}

\* C9: once aoi_eval.run has canonicalized the LiDAR tag and the AOI tag (or
\* the EPSG override), two canonical forms that disagree make the run fail with
\* the CRS-mismatch error and nothing is written; and when both tags are
\* spellings of one EPSG code (EPSG:N, urn:ogc:def:crs:EPSG::N, bare N) the
\* canonical forms agree and no CRS-mismatch error is raised.
C9_CrsMismatchRefusedSpellingsAgree ==
    aoi_pc \notin {"idle", "start"} =>
       /\ (lidar_crs # <<>> /\ aoi_crs # <<>> /\ lidar_crs # aoi_crs) =>
             /\ aoi_pc = "failed"
             /\ aoi_error = "ValueError: CRS mismatch"
             /\ ~aoi_file.written
       /\ \A n \in {32720, 5345, 4326} :
             (/\ aparams.lidar.crs \in SpellingsOf(n)
              /\ IF aparams.aoi_crs_epsg.some
                 THEN aparams.aoi_crs_epsg.v = n
                 ELSE aparams.aoi.crs \in SpellingsOf(n))
             => /\ lidar_crs = EpsgLabel(n) /\ aoi_crs = EpsgLabel(n)
                /\ aoi_error # "ValueError: CRS mismatch"

\* a run refused because a URN-spelled LiDAR tag and the AOI's own tag name
\* different EPSG codes
C9_Witness ==
    /\ aoi_pc = "failed"
    /\ aoi_error = "ValueError: CRS mismatch"
    /\ aparams.lidar.crs = StrTag(Txt.UrnEpsg \o DecStr(32720))
    /\ ~aparams.aoi_crs_epsg.some
    /\ aparams.aoi.crs = EpsgDictTag(5345)

\* the effective CRS of a run is geographic: canonical EPSG:4326 or a text
\* mentioning CRS84
EffectiveCrs == IF aoi_crs # <<>> THEN aoi_crs ELSE lidar_crs
EffectiveGeographic ==
    EffectiveCrs = Txt.EPSG4326 \/ Contains(Upper(EffectiveCrs), Txt.CRS84)

\* number of located detections of the summary that lie inside a geometry
DetectionsInside(geometry) ==
    Cardinality({i \in 1..Len(XyAndIds(AoiDets)) :
       PointInGeometry(<<XyAndIds(AoiDets)[i].x, XyAndIds(AoiDets)[i].y>>, geometry)})

\* C10: when the effective CRS is geographic, aoi_eval.run refuses and writes
\* nothing unless allow_geographic_crs is set: it evaluates no AOI, and a run
\* that got as far as the AOIs stops with the geographic-CRS error; when the
\* option is set every result carries its count while area_m2 and
\* density_per_ha are null.
C10_GeographicRefusedOrAreaOmitted ==
    (aoi_pc \notin {"idle", "start"} /\ EffectiveGeographic) =>
       IF aparams.allow_geographic_crs
       THEN \A k \in 1..Len(results) :
               /\ \E a \in 1..Len(aois) :
                     /\ aois[a].aoi_id = results[k].aoi_id
                     /\ results[k].count = DetectionsInside(aois[a].geometry)
               /\ results[k].area_m2 = None
               /\ results[k].density_per_ha = None
       ELSE /\ ~aoi_file.written
            /\ results = <<>>
            /\ aoi_pc \in {"checked", "failed"}
            /\ (aoi_pc = "failed" /\ aois # <<>>) =>
                  aoi_error = "ValueError: AOI CRS appears geographic"

\* a report written under a geographic CRS with the option set, holding an AOI
\* that contains detections
C10_Witness ==
    /\ aoi_pc = "written"
    /\ EffectiveGeographic
    /\ aparams.allow_geographic_crs
    /\ \E k \in 1..Len(results) : results[k].count > 0

\* C13: the count reported for an AOI is the number of located detections that
\* lie inside the outer ring of some polygon of the AOI and inside none of that
\* polygon's holes; a detection inside several member polygons of a
\* MultiPolygon is counted once.
C13_CountIsPointsInsideShellOutsideHoles ==
    \A k \in 1..Len(results) :
       \A a \in 1..Len(aois) :
          aois[a].aoi_id = results[k].aoi_id =>
             results[k].count =
                Cardinality({i \in 1..Len(XyAndIds(AoiDets)) :
                   LET p == <<XyAndIds(AoiDets)[i].x, XyAndIds(AoiDets)[i].y>>
                       polys == aois[a].geometry.polys
                   IN \E q \in 1..Len(polys) :
                         /\ Len(polys[q]) >= 1
                         /\ InsideRing(p, polys[q][1])
                         /\ \A h \in 2..Len(polys[q]) : ~InsideRing(p, polys[q][h])})

\* a written report with a MultiPolygon AOI whose two member polygons share a
\* detection: three detections inside, one of them in both members
C13_Witness ==
    /\ aoi_pc = "written"
    /\ \E k \in 1..Len(results) : \E a \in 1..Len(aois) :
          /\ aois[a].aoi_id = results[k].aoi_id
          /\ aois[a].geometry.gtype = "MultiPolygon"
          /\ Len(aois[a].geometry.polys) = 2
          /\ results[k].count = 3
          /\ \E i \in 1..Len(XyAndIds(AoiDets)) :
                \A q \in 1..2 :
                   InsideRing(<<XyAndIds(AoiDets)[i].x, XyAndIds(AoiDets)[i].y>>,
                              aois[a].geometry.polys[q][1])

\* twice the signed area of a ring by the trapezoid form of the shoelace sum
Shoelace2(ring) ==
    IF Len(ring) < 3 THEN 0
    ELSE SumOver(1..Len(ring),
                 [i \in 1..Len(ring) |->
                    (ring[i][1] + ring[(i % Len(ring)) + 1][1])
                       * (ring[(i % Len(ring)) + 1][2] - ring[i][2])])
\* twice the area of a geometry: per polygon |outer| minus the |hole|s, not
\* below 0, summed over the polygons
ExpectedArea2(geom) ==
    SumOver(1..Len(geom.polys),
            [q \in 1..Len(geom.polys) |->
               IF geom.polys[q] = <<>> THEN 0
               ELSE Max2(Abs(Shoelace2(geom.polys[q][1]))
                            - SumOver(2..Len(geom.polys[q]),
                                      [h \in 2..Len(geom.polys[q]) |->
                                          Abs(Shoelace2(geom.polys[q][h]))]), 0)])

\* C25: under a projected CRS every result's area_m2 is the shoelace area of
\* the outer ring minus the shoelace areas of the holes, not below 0, summed
\* over the polygons of the AOI, and density_per_ha is count / (area_m2 /
\* 10000) when area_m2 > 0 and null otherwise.
C25_AreaIsShoelaceDensityPerHectare ==
    ~EffectiveGeographic =>
       \A k \in 1..Len(results) : \A a \in 1..Len(aois) :
          aois[a].aoi_id = results[k].aoi_id =>
             /\ results[k].area_m2.some
             /\ RatEq(results[k].area_m2.v, Rat(ExpectedArea2(aois[a].geometry), 2))
             /\ IF ExpectedArea2(aois[a].geometry) > 0
                THEN /\ results[k].density_per_ha.some
                     /\ RatEq(results[k].density_per_ha.v,
                              Rat(results[k].count * 10000 * 2,
                                  ExpectedArea2(aois[a].geometry)))
                ELSE results[k].density_per_ha = None

\* a written report under a projected CRS with a holed square of 96 m2 that
\* contains a detection, next to a plain square of 100 m2
C25_Witness ==
    /\ aoi_pc = "written"
    /\ ~EffectiveGeographic
    /\ \E k \in 1..Len(results) : \E a \in 1..Len(aois) :
          /\ aois[a].aoi_id = results[k].aoi_id
          /\ Len(aois[a].geometry.polys[1]) = 2
          /\ RatEq(results[k].area_m2.v, Rat(96, 1))
          /\ results[k].count > 0
          /\ results[k].density_per_ha.some
    /\ \E k \in 1..Len(results) : RatEq(results[k].area_m2.v, Rat(100, 1))

\* the AOI collection holds a feature that is not a Polygon or MultiPolygon,
\* or a ring of fewer than 3 points
HasInvalidGeometry ==
    \E f \in 1..Len(aparams.aoi.features) :
       \/ aparams.aoi.features[f].gtype \notin {"Polygon", "MultiPolygon"}
       \/ \E q \in 1..Len(aparams.aoi.features[f].polys) :
             \E h \in 1..Len(aparams.aoi.features[f].polys[q]) :
                Len(aparams.aoi.features[f].polys[q][h]) < 3

\* C26: a run whose AOI collection holds a ring of fewer than 3 points or a
\* geometry of another type than Polygon/MultiPolygon never evaluates an AOI
\* and writes no report; a run that reaches the AOIs of a collection without
\* a usable AOI fails with the no-AOIs error and writes no report.
C26_InvalidGeometryRefused ==
    aoi_pc # "idle" =>
       /\ HasInvalidGeometry =>
             /\ aoi_pc \notin {"evaluating", "written"}
             /\ results = <<>>
             /\ ~aoi_file.written
       /\ (/\ aoi_pc \notin {"start", "checked"}
           /\ aparams.lidar.form # "none" /\ aparams.aoi.type = "FeatureCollection"
           /\ aoi_error # "ValueError: CRS mismatch"
           /\ ExtractAois(aparams.aoi.features) = <<>>) =>
             /\ aoi_pc = "failed"
             /\ aoi_error = "ValueError: No Polygon/MultiPolygon AOIs found in GeoJSON"
             /\ ~aoi_file.written

\* ------------------------------------------------------------------------
\* process_file (and the plot-scale prepass of main) up to the grids:
\* bounds, grid-memory budget check, DEM pass, HAG pass.  tile_log is the
\* sequence of streaming passes, budget checks and grid allocations performed.
\* ------------------------------------------------------------------------
\* LAS headers: bounds (x, y, z) and point count as stored; "raises" when the
\* header cannot be read
\* and the points of the tile, as streamed
TileInputs ==
    LET Hdr(k, lo, hi, n) == [kind |-> k, mins |-> lo, maxs |-> hi, npts |-> n]
        TileHeaders ==
            {Hdr("arrays", <<0, 0, 90>>, <<50, 25, 170>>, 2),
             Hdr("arrays", <<0, 0, 0>>, <<100, 100, 10>>, 2),
             Hdr("arrays", <<0, 0, 90>>, <<0, 25, 170>>, 2),
             Hdr("arrays", <<0, 0, 90>>, <<Inf, 25, 170>>, 2),
             Hdr("arrays", <<0, 0, 90>>, <<50, 25, 170>>, 0),
             Hdr("raises", <<0, 0, 0>>, <<0, 0, 0>>, 0)}
        TileClouds ==
            {<<>>,
             <<[x |-> 10, y |-> 5, z |-> 140]>>,
             <<[x |-> 0, y |-> 0, z |-> 110], [x |-> 50, y |-> 25, z |-> 90]>>}
    IN
    [laspy : BOOLEAN, header : TileHeaders, points : TileClouds, cell_res : {25},
     ground_method : {"min", "p05"}, top_method : {"max", "p95"},
     slope_max_deg : {None, Some(30)},
     max_grid_mb : {None, Some(Rat(1, 10000)), Some(Rat(1, 5000)), Some(Rat(1, 1))},
     skip_oversized_tiles : BOOLEAN,
     caller : {"process_file", "prepass"}]

\* _compute_bounds_stream: one pass over the points; zeros when there are none
ComputeBoundsStream(pts) ==
    LET axis(k) == {IF k = 1 THEN pts[i].x ELSE IF k = 2 THEN pts[i].y ELSE pts[i].z :
                       i \in 1..Len(pts)}
    IN IF pts = <<>>
       THEN [mins |-> <<0, 0, 0>>, maxs |-> <<0, 0, 0>>, npts |-> 0]
       ELSE [mins |-> [k \in 1..3 |-> SetMin(axis(k))],
             maxs |-> [k \in 1..3 |-> SetMax(axis(k))],
             npts |-> Len(pts)]

\* read_bounds_and_counts: the header when it is usable, else the streamed bounds
HeaderUsable(h) ==
    LET IsFinite(v) == -Inf < v /\ v < Inf
    IN /\ h.kind = "arrays"
       /\ \A k \in 1..3 :
             h.maxs[k] - h.mins[k] > 0 /\ IsFinite(h.mins[k]) /\ IsFinite(h.maxs[k])
       /\ h.npts > 0
ReadBoundsAndCounts(t) ==
    IF HeaderUsable(t.header)
    THEN [bounds |-> [mins |-> t.header.mins, maxs |-> t.header.maxs, npts |-> t.header.npts],
          events |-> <<>>]
    ELSE [bounds |-> ComputeBoundsStream(t.points), events |-> <<"bounds_stream">>]

\* _estimate_grid_bytes
EstimateGridBytes(ny, nx, ground_method, top_method, slope_max_deg) ==
    IF ny * nx <= 0 THEN 0
    ELSE ny * nx * (4 + (IF ground_method # "min" THEN 4 ELSE 0) + 4
                      + (IF top_method = "p95" THEN 4 ELSE 0) + 4
                      + (IF slope_max_deg.some THEN 4 ELSE 0) + 8 + 1 + 4)

\* est_mb > float(max_grid_mb), with est_mb = est_bytes / 1024 ** 2
NeverOverBudget(est_bytes, max_grid_mb) == FALSE
OverBudget(est_bytes, max_grid_mb) ==
    est_bytes * max_grid_mb.d > max_grid_mb.n * 1024 * 1024

\* the bounds argument handed to build_ground_dem
BoundsArgOmitted(b) == None
BoundsArg(b) == Some(b)

\* build_ground_dem, lines 392-399 and the chunk loop: bounds are read again
\* only when none were passed in
BuildGroundDemEvents(t, bounds) ==
    (IF bounds.some THEN <<>> ELSE ReadBoundsAndCounts(t).events)
       \o <<"alloc_dem", "dem_stream">>

TileStart ==
    /\ tile \in TileInputs
    /\ tile_pc = "start"
    /\ tile_bounds = <<>>
    /\ tile_log = <<>>
    /\ tile_out = <<>>

\* 761-766 (1058): read_bounds_and_counts
TileReadBounds ==
    /\ tile_pc = "start"
    /\ IF ~tile.laspy
       THEN /\ tile_pc' = IF tile.caller = "prepass" THEN "prepass_continue" ELSE "returned"
            /\ tile_out' = IF tile.caller = "prepass" THEN tile_out
                           ELSE [count |-> 0, error |-> "Failed to read bounds"]
            /\ UNCHANGED <<tile_bounds, tile_log>>
       ELSE /\ tile_bounds' = ReadBoundsAndCounts(tile).bounds
            /\ tile_log' = tile_log \o ReadBoundsAndCounts(tile).events
            /\ tile_pc' = "bounds"
            /\ UNCHANGED tile_out
    /\ UNCHANGED tile
    /\ UNCHANGED <<detVars, ddVars, gridVars, fusVars, aoiVars, batchVars>>

\* 767-787 (1059-1071): grid shape and budget check
TileBudgetCheck ==
    /\ tile_pc = "bounds"
    /\ LET shape == GridShape(tile_bounds.mins, tile_bounds.maxs, tile.cell_res)
           est == EstimateGridBytes(shape.ny, shape.nx, tile.ground_method,
                                    tile.top_method, tile.slope_max_deg)
       IN IF ~tile.max_grid_mb.some
          THEN tile_pc' = "budget_ok" /\ UNCHANGED <<tile_log, tile_out>>
          ELSE /\ tile_log' = Append(tile_log, "budget_check")
               /\ IF ~OverBudget(est, tile.max_grid_mb.v)
                  THEN tile_pc' = "budget_ok" /\ UNCHANGED tile_out
                  ELSE IF tile.caller = "prepass"
                  THEN tile_pc' = "prepass_continue" /\ UNCHANGED tile_out
                  ELSE IF tile.skip_oversized_tiles
                  THEN /\ tile_pc' = "returned"
                       /\ tile_out' = [count |-> 0, skipped |-> TRUE,
                                       error |-> "Tile grid too large",
                                       grid_shape |-> <<shape.ny, shape.nx>>]
                  ELSE /\ tile_pc' = "raised"
                       /\ tile_out' = [error |-> "RuntimeError: Tile grid too large"]
    /\ UNCHANGED <<tile, tile_bounds>>
    /\ UNCHANGED <<detVars, ddVars, gridVars, fusVars, aoiVars, batchVars>>

\* 788-795 (1072-1075): build_ground_dem with the bounds already read
TileBuildDem ==
    /\ tile_pc = "budget_ok"
    /\ tile_log' = tile_log \o BuildGroundDemEvents(tile, BoundsArg(tile_bounds))
    /\ tile_pc' = "dem"
    /\ UNCHANGED <<tile, tile_bounds, tile_out>>
    /\ UNCHANGED <<detVars, ddVars, gridVars, fusVars, aoiVars, batchVars>>

\* 796-804 (1076-1084): build_hag_grid on the DEM's grid
TileBuildHag ==
    /\ tile_pc = "dem"
    /\ tile_log' = tile_log \o <<"alloc_hag", "hag_stream">>
    /\ tile_pc' = "grids"
    /\ UNCHANGED <<tile, tile_bounds, tile_out>>
    /\ UNCHANGED <<detVars, ddVars, gridVars, fusVars, aoiVars, batchVars>>

NextTile ==
    \/ TileReadBounds
    \/ TileBudgetCheck
    \/ TileBuildDem
    \/ TileBuildHag

\* positions of an event in the log
LogAt(e) == {i \in 1..Len(tile_log) : tile_log[i] = e}
GridEvents == {"alloc_dem", "dem_stream", "alloc_hag", "hag_stream"}

\* the estimate of the tile's grid exceeds the configured budget
EstimateExceedsBudget ==
    /\ tile.max_grid_mb.some
    /\ LET shape == GridShape(tile_bounds.mins, tile_bounds.maxs, tile.cell_res)
       IN EstimateGridBytes(shape.ny, shape.nx, tile.ground_method, tile.top_method,
                            tile.slope_max_deg) * tile.max_grid_mb.v.d
             > tile.max_grid_mb.v.n * 1024 * 1024

\* C16: in process_file with a budget configured, the budget check comes
\* before every grid allocation and pass; when the estimate exceeds
\* max_grid_mb no DEM or HAG pass runs and the outcome is a skipped entry with
\* count 0 if skip_oversized_tiles is set, a raised error otherwise.
C16_BudgetCheckBeforeAllocation ==
    (tile_pc # "idle" /\ tile.caller = "process_file" /\ tile.max_grid_mb.some) =>
       /\ \A i \in 1..Len(tile_log) :
             tile_log[i] \in GridEvents => \E k \in 1..(i - 1) : tile_log[k] = "budget_check"
       /\ (tile_pc \notin {"start", "bounds"} /\ tile.laspy /\ EstimateExceedsBudget) =>
             /\ \A i \in 1..Len(tile_log) : tile_log[i] \notin GridEvents
             /\ IF tile.skip_oversized_tiles
                THEN /\ tile_pc = "returned"
                     /\ tile_out.count = 0 /\ tile_out.skipped
                ELSE /\ tile_pc = "raised"
                     /\ tile_out.error = "RuntimeError: Tile grid too large"

\* an oversized tile skipped by process_file
C16_Witness ==
    /\ tile_pc = "returned"
    /\ tile.caller = "process_file"
    /\ tile.laspy
    /\ EstimateExceedsBudget
    /\ tile.skip_oversized_tiles
    /\ tile_out.count = 0
    /\ tile_log[Len(tile_log)] = "budget_check"

\* the header gives no usable bounds: unreadable, degenerate or non-finite
\* bounds, or a point count of zero
HeaderNeedsStream ==
    \/ tile.header.kind = "raises"
    \/ \E k \in 1..3 : tile.header.maxs[k] <= tile.header.mins[k]
    \/ \E k \in 1..3 : tile.header.maxs[k] >= Inf \/ tile.header.mins[k] >= Inf
    \/ tile.header.npts = 0

\* C17: when the header bounds are missing or degenerate or the point count is
\* zero, the streaming pass that recomputes bounds and count runs exactly once
\* for the tile's grid build: it happens before the budget check and the DEM
\* and HAG passes, which reuse its result and never repeat it.
C17_BoundsPassRunsOnce ==
    (tile_pc \notin {"idle", "start"} /\ tile.laspy) =>
       /\ Cardinality(LogAt("bounds_stream")) = IF HeaderNeedsStream THEN 1 ELSE 0
       /\ \A i \in LogAt("bounds_stream") : i = 1
       /\ HeaderNeedsStream => tile_bounds = ComputeBoundsStream(tile.points)

\* both grids built for a tile with degenerate header bounds
C17_Witness ==
    /\ tile_pc = "grids"
    /\ tile.header.kind = "arrays"
    /\ tile.header.maxs[1] = tile.header.mins[1]
    /\ tile_log = <<"bounds_stream", "alloc_dem", "dem_stream", "alloc_hag", "hag_stream">>

\* ------------------------------------------------------------------------
\* main: the batch loop over the tiles (1094-1139).  A tile is described by
\* what process_file meets on it: whether its bounds can be read, its header
\* and points, the number of candidates the extractor finds on its grids and
\* whether writing its GeoJSON fails.
\* ------------------------------------------------------------------------
MaxTiles == 3

BatchInputs ==
    LET Tile(readable, hi, found, geojson_fails) ==
            [readable |-> readable,
             header |-> [kind |-> "arrays", mins |-> <<0, 0, 90>>, maxs |-> hi, npts |-> 2],
             points |-> <<[x |-> 0, y |-> 0, z |-> 110], [x |-> 50, y |-> 25, z |-> 90]>>,
             count |-> found, geojson_fails |-> geojson_fails]
        Tiles == {Tile(TRUE, <<50, 25, 170>>, 0, FALSE),
                  Tile(TRUE, <<50, 25, 170>>, 2, FALSE),
                  Tile(TRUE, <<50, 25, 170>>, 1, TRUE),
                  Tile(TRUE, <<100, 100, 170>>, 1, FALSE),
                  Tile(FALSE, <<50, 25, 170>>, 1, FALSE)}
    IN [files : UNION {[1..n -> Tiles] : n \in 0..MaxTiles},
        cell_res : {25}, ground_method : {"min"}, top_method : {"p95"},
        slope_max_deg : {None},
        max_grid_mb : {None, Some(Rat(1, 5000))},
        skip_oversized_tiles : BOOLEAN,
        emit_geojson : {TRUE},
        strict_outputs : BOOLEAN]

\* process_file on the i-th tile: the entry it returns, or the error it raises
ProcessFile(i, t, o) ==
    LET b == ReadBoundsAndCounts(t).bounds
        shape == GridShape(b.mins, b.maxs, o.cell_res)
        est == EstimateGridBytes(shape.ny, shape.nx, o.ground_method, o.top_method,
                                 o.slope_max_deg)
        Entry(found, skipped, error) ==
            [path |-> i, count |-> found, skipped |-> skipped, error |-> error]
        Returns(e) == [raised |-> FALSE, info |-> e]
        Raises(msg) == [raised |-> TRUE, info |-> Entry(0, None, Some(msg))]
    IN IF ~t.readable
       THEN Returns(Entry(0, None, Some("Failed to read bounds")))
       ELSE IF o.max_grid_mb.some /\ OverBudget(est, o.max_grid_mb.v)
       THEN IF o.skip_oversized_tiles
            THEN Returns(Entry(0, Some(TRUE), Some("Tile grid too large")))
            ELSE Raises("RuntimeError: Tile grid too large")
       ELSE IF o.emit_geojson /\ t.count > 0 /\ t.geojson_fails /\ o.strict_outputs
       THEN Raises("RuntimeError: GeoJSON write failed")
       ELSE Returns(Entry(t.count, None, None))

\* 1134: summary["total_count"] += int(info.get("count", 0))
AddCountOverwrite(total, info) == info.count
AddCount(total, info) == total + info.count

\* lidar_profiles: the official profile and the policy block built from it
OFFICIAL_DETERMINISTIC ==
    [name |-> "official_deterministic", ground_method |-> "p05", top_method |-> "max"]
as_policy_dict ==
    [lidar |-> [official_profile |-> OFFICIAL_DETERMINISTIC.name,
                official_ground_method |-> OFFICIAL_DETERMINISTIC.ground_method,
                official_top_method |-> OFFICIAL_DETERMINISTIC.top_method,
                p95_is_experimental |-> TRUE]]

\* 1028-1039: the summary before the loop
BatchStart ==
    /\ batch \in BatchInputs
    /\ batch_pc = "loop"
    /\ batch_i = 1
    /\ batch_summary = [policy |-> as_policy_dict, files |-> <<>>, total_count |-> 0,
                        error |-> None]

\* 1095-1139: one iteration; an error raised by process_file leaves main
BatchTile ==
    /\ batch_pc = "loop" /\ batch_i <= Len(batch.files)
    /\ LET out == ProcessFile(batch_i, batch.files[batch_i], batch)
       IN IF out.raised
          THEN /\ batch_pc' = "aborted"
               /\ batch_summary' = [batch_summary EXCEPT !.error = out.info.error]
               /\ UNCHANGED batch_i
          ELSE /\ batch_summary' = [batch_summary EXCEPT
                                 !.files = Append(@, out.info),
                                 !.total_count = AddCount(@, out.info)]
               /\ batch_i' = batch_i + 1
               /\ UNCHANGED batch_pc
    /\ UNCHANGED batch
    /\ UNCHANGED <<detVars, ddVars, gridVars, fusVars, aoiVars, tileVars>>

\* the loop has run through every tile
BatchLoopEnd ==
    /\ batch_pc = "loop" /\ batch_i > Len(batch.files)
    /\ batch_pc' = "done"
    /\ UNCHANGED <<batch, batch_i, batch_summary>>
    /\ UNCHANGED <<detVars, ddVars, gridVars, fusVars, aoiVars, tileVars>>

NextBatch ==
    \/ BatchTile
    \/ BatchLoopEnd

\* what the i-th tile of the batch is: unreadable, over the grid budget, or
\* failing for another reason
Unreadable(i) == ~batch.files[i].readable
Oversized(i) ==
    /\ batch.files[i].readable /\ batch.max_grid_mb.some
    /\ batch.files[i].header.maxs[1] = 100
OtherError(i) ==
    /\ batch.files[i].readable /\ ~Oversized(i)
    /\ batch.files[i].count > 0 /\ batch.files[i].geojson_fails /\ batch.strict_outputs
Aborts(i) == (Oversized(i) /\ ~batch.skip_oversized_tiles) \/ OtherError(i)

\* C23: a tile whose bounds cannot be read, or whose grid is over budget
\* while skip_oversized_tiles is set, gets a summary entry with skipped: true,
\* an error message and count 0, and the loop goes on to the tiles after it;
\* any other error ends the batch at that tile.
C23_FailedTilesRecordedAndSkipped ==
    batch_pc # "idle" =>
       /\ \A i \in 1..Len(batch_summary.files) :
             (Unreadable(i) \/ (Oversized(i) /\ batch.skip_oversized_tiles)) =>
                /\ batch_summary.files[i].skipped = Some(TRUE)
                /\ batch_summary.files[i].error.some
                /\ batch_summary.files[i].count = 0
       /\ (batch_pc = "done") =>
             /\ Len(batch_summary.files) = Len(batch.files)
             /\ \A i \in 1..Len(batch.files) : ~Aborts(i)
       /\ (batch_pc = "aborted") =>
             /\ Aborts(batch_i)
             /\ Len(batch_summary.files) = batch_i - 1
             /\ \A i \in 1..(batch_i - 1) : ~Aborts(i)

\* C24: at every point of the loop, summary.files holds one entry per tile
\* processed so far, in the order the tiles were presented, and total_count
\* is the sum of the entries' counts; an entry of a skipped or failed tile
\* has count 0; when the loop ends every tile has its entry.
C24_FilesInOrderTotalIsSum ==
    batch_pc # "idle" =>
       /\ \A i \in 1..Len(batch_summary.files) :
             /\ batch_summary.files[i].path = i
             /\ batch_summary.files[i].error.some => batch_summary.files[i].count = 0
       /\ Len(batch_summary.files) = IF batch_pc = "done" THEN Len(batch.files) ELSE batch_i - 1
       /\ batch_summary.total_count =
             SumOver(1..Len(batch_summary.files), [i \in 1..Len(batch_summary.files) |->
                                                 batch_summary.files[i].count])

\* a finished batch of three tiles: the first with candidates, the second
\* skipped as oversized, the third with candidates again
C24_Witness ==
    /\ batch_pc = "done"
    /\ Len(batch_summary.files) = 3
    /\ batch_summary.files[1].count > 0
    /\ batch_summary.files[2].skipped = Some(TRUE)
    /\ batch_summary.files[3].count > 0
    /\ batch_summary.total_count = batch_summary.files[1].count + batch_summary.files[3].count

\* C28: the policy block embedded in every LiDAR summary names only
\* order-invariant estimators: official_ground_method is min,
\* official_top_method is max, and p95 is marked experimental.
C28_OfficialProfileOrderInvariant ==
    batch_pc # "idle" =>
       /\ batch_summary.policy.lidar.official_ground_method = "min"
       /\ batch_summary.policy.lidar.official_top_method = "max"
       /\ batch_summary.policy.lidar.p95_is_experimental

\* ------------------------------------------------------------------------
\* Specifications
\* ------------------------------------------------------------------------
GridIdle ==
    /\ las_points = <<>>
    /\ chunk_size = 1
    /\ edt_tie = "first"
    /\ grid_pc = "idle"
    /\ offset = 0
    /\ dem = <<>>
    /\ global_min_z = <<>>
    /\ hag_grid = <<>>
    /\ grid_cfg = [ground_method |-> "min", top_method |-> "max",
                   top_zscore_cap |-> None, maxs |-> <<0, 0>>]
    /\ q05 = <<>>
    /\ q95 = <<>>

FusionIdle ==
    /\ fparams = <<>>
    /\ fus_pc = "idle"
    /\ lidar_dets = <<>>
    /\ thermal_dets = <<>>
    /\ fus_out = None
    /\ fus_file = NoFile
    /\ fus_error = "none"

AoiIdle ==
    /\ aparams = <<>>
    /\ aoi_pc = "idle"
    /\ lidar_crs = <<>>
    /\ aoi_crs = <<>>
    /\ aois = <<>>
    /\ results = <<>>
    /\ aoi_file = NoFile
    /\ aoi_error = "none"

TileIdle ==
    /\ tile = <<>>
    /\ tile_pc = "idle"
    /\ tile_bounds = <<>>
    /\ tile_log = <<>>
    /\ tile_out = <<>>

BatchIdle ==
    /\ batch = <<>>
    /\ batch_pc = "idle"
    /\ batch_i = 0
    /\ batch_summary = <<>>

InitDetect == DetectStart /\ DedupeIdle /\ GridIdle /\ FusionIdle /\ AoiIdle /\ TileIdle
              /\ BatchIdle
SpecDetect == InitDetect /\ [][NextDetect]_vars

InitDedupe == DetectIdle /\ DedupeStart /\ GridIdle /\ FusionIdle /\ AoiIdle /\ TileIdle
              /\ BatchIdle
SpecDedupe == InitDedupe /\ [][NextDedupe]_vars

InitFusion == DetectIdle /\ DedupeIdle /\ GridIdle /\ FusionStart /\ AoiIdle /\ TileIdle
              /\ BatchIdle
SpecFusion == InitFusion /\ [][NextFusion]_vars

InitAoi == DetectIdle /\ DedupeIdle /\ GridIdle /\ FusionIdle /\ AoiStart /\ TileIdle
           /\ BatchIdle
SpecAoi == InitAoi /\ [][NextAoi]_vars

InitTile ==
    DetectIdle /\ DedupeIdle /\ GridIdle /\ FusionIdle /\ AoiIdle /\ TileStart /\ BatchIdle
SpecTile == InitTile /\ [][NextTile]_vars

InitBatch ==
    DetectIdle /\ DedupeIdle /\ GridIdle /\ FusionIdle /\ AoiIdle /\ TileIdle /\ BatchStart
SpecBatch == InitBatch /\ [][NextBatch]_vars

InitGrid == DetectIdle /\ DedupeIdle /\ GridStart /\ FusionIdle /\ AoiIdle /\ TileIdle
              /\ BatchIdle
SpecGrid == InitGrid /\ [][NextGrid]_vars

====
